---- MODULE Spec2Model ----
(***************************************************************************)
(* A model of the rtchallenge ray tracer: the Scene (lights, transforms,   *)
(* materials, geometrys, max_depth), its construction operations and the   *)
(* recursive shading function Scene::color_at / color_at_remaining, run as *)
(* a state machine with an explicit call stack.                            *)
(*                                                                         *)
(* f32 values are fixed-point integers: the f32 value v is the integer     *)
(* v * One, products and quotients are rescaled and truncated toward zero. *)
(***************************************************************************)
EXTENDS Integers, Sequences, FiniteSets, TLC

\* ------------------------------------------------------------ f32 arithmetic

\* The representation of the f32 value 1.0.
One == 1000

Abs(a) == IF a < 0 THEN -a ELSE a

Sgn(a) == IF a < 0 THEN -1 ELSE IF a > 0 THEN 1 ELSE 0

\* Integer quotient truncated toward zero (b # 0).
TDiv(a, b) == Sgn(a) * Sgn(b) * (Abs(a) \div Abs(b))

\* a * b and a / b on f32.
FMul(a, b) == TDiv(a * b, One)

FDiv(a, b) == TDiv(a * One, b)

RECURSIVE ISqrtBetween(_, _, _)
\* The largest r in lo..hi with r * r <= n (lo * lo <= n < (hi + 1)^2).
ISqrtBetween(n, lo, hi) ==
    IF lo >= hi THEN lo
    ELSE LET mid == (lo + hi + 1) \div 2
         IN IF mid * mid <= n THEN ISqrtBetween(n, mid, hi)
            ELSE ISqrtBetween(n, lo, mid - 1)

\* Floor of the square root of the integer n >= 0.
ISqrt(n) == ISqrtBetween(n, 0, 46340)

\* f32::sqrt of a value >= 0.
FSqrt(a) == ISqrt(a * One)

RECURSIVE FPowi(_, _)
\* f32::powi(a, n), n >= 0, by repeated squaring.
FPowi(a, n) ==
    IF n = 0 THEN One
    ELSE LET h == FPowi(a, n \div 2)
             h2 == FMul(h, h)
         IN IF n % 2 = 0 THEN h2 ELSE FMul(h2, a)

Min(a, b) == IF a < b THEN a ELSE b

Max(a, b) == IF a > b THEN a ELSE b

\* ------------------------------------------------------------------ Tuple4

tuple4(x, y, z, w) == [x |-> x, y |-> y, z |-> z, w |-> w]

point3(x, y, z) == tuple4(x, y, z, One)

vector3(x, y, z) == tuple4(x, y, z, 0)

TAdd(a, b) == tuple4(a.x + b.x, a.y + b.y, a.z + b.z, a.w + b.w)

TSub(a, b) == tuple4(a.x - b.x, a.y - b.y, a.z - b.z, a.w - b.w)

TNeg(a) == tuple4(-a.x, -a.y, -a.z, -a.w)

TScale(a, s) == tuple4(FMul(a.x, s), FMul(a.y, s), FMul(a.z, s), FMul(a.w, s))

\* The sum of squares is kept at full precision before the square root, as
\* the fused multiply-adds of the source do.
magnitude(a) == ISqrt(a.x * a.x + a.y * a.y + a.z * a.z + a.w * a.w)

normalize(a) ==
    LET m == magnitude(a)
    IN IF m = 0 THEN a
       ELSE tuple4(FDiv(a.x, m), FDiv(a.y, m), FDiv(a.z, m), FDiv(a.w, m))

dot(a, b) == TDiv(a.x * b.x + a.y * b.y + a.z * b.z, One)

reflect(v, normal) == TSub(v, TScale(TScale(normal, 2 * One), dot(v, normal)))

\* ----------------------------------------------------------------- Matrix4

matrix4(r0, r1, r2, r3) == <<r0, r1, r2, r3>>

I4 == matrix4(<<One, 0, 0, 0>>, <<0, One, 0, 0>>, <<0, 0, One, 0>>, <<0, 0, 0, One>>)

transpose(m) == [i \in 1..4 |-> [j \in 1..4 |-> m[j][i]]]

RowDot(r, t) == TDiv(r[1] * t.x + r[2] * t.y + r[3] * t.z + r[4] * t.w, One)

MatMulTuple(m, t) == tuple4(RowDot(m[1], t), RowDot(m[2], t), RowDot(m[3], t), RowDot(m[4], t))

\* impl Mul for Matrix4
MatMul(a, b) ==
    [i \in 1..4 |-> [j \in 1..4 |->
        TDiv(a[i][1] * b[1][j] + a[i][2] * b[2][j] + a[i][3] * b[3][j] + a[i][4] * b[4][j], One)]]

\* A sequence without its k-th element.
Drop(s, k) == [i \in 1..(Len(s) - 1) |-> IF i < k THEN s[i] ELSE s[i + 1]]

\* Matrix4::submatrix and Matrix3::submatrix; row and column count from 0.
submatrix(m, row, column) == [i \in 1..(Len(m) - 1) |-> Drop(Drop(m, row + 1)[i], column + 1)]

\* Matrix2::determinant, Matrix3::determinant, Matrix4::determinant: the
\* expansion along the first row.
RECURSIVE determinant(_)
determinant(m) ==
    IF Len(m) = 2 THEN FMul(m[1][1], m[2][2]) - FMul(m[1][2], m[2][1])
    ELSE LET term(j) == FMul(m[1][j + 1], determinant(submatrix(m, 0, j)))
         IN term(0) - term(1) + term(2) - (IF Len(m) = 4 THEN term(3) ELSE 0)

minor(m, row, column) == determinant(submatrix(m, row, column))

cofactor(m, row, column) ==
    IF (row + column) % 2 = 1 THEN -minor(m, row, column) ELSE minor(m, row, column)

\* Matrix4::is_invertible
is_invertible(m) == determinant(m) # 0

\* A product with the reciprocal of a zero determinant: infinite, or NaN for 0 * inf.
NonFinite(c) == IF c = 0 THEN "NaN" ELSE IF c > 0 THEN "inf" ELSE "-inf"

\* Matrix4::inverse past its debug_assert!: the cofactors, transposed, times
\* the reciprocal of the determinant.
inverse(m) ==
    LET det == determinant(m)
    IN [i \in 1..4 |-> [j \in 1..4 |->
           IF det = 0 THEN NonFinite(cofactor(m, j - 1, i - 1))
           ELSE FDiv(cofactor(m, j - 1, i - 1), det)]]

\* --------------------------------------------------------------- Transform

\* Transform::new(): the identity.
NewTransform == [local_to_world |-> I4, world_to_local |-> I4]

\* Transform::new().translate(x, y, z); the inverse of a translation matrix
\* is the translation by the negated offsets.
Translate(x, y, z) ==
    [local_to_world |-> matrix4(<<One, 0, 0, x>>, <<0, One, 0, y>>, <<0, 0, One, z>>, <<0, 0, 0, One>>),
     world_to_local |-> matrix4(<<One, 0, 0, -x>>, <<0, One, 0, -y>>, <<0, 0, One, -z>>, <<0, 0, 0, One>>)]

\* Transform::new().scale(s, s, s), s # 0; the inverse of a scaling matrix
\* scales by the reciprocals.
Scale(s) ==
    [local_to_world |-> matrix4(<<s, 0, 0, 0>>, <<0, s, 0, 0>>, <<0, 0, s, 0>>, <<0, 0, 0, One>>),
     world_to_local |-> matrix4(<<FDiv(One, s), 0, 0, 0>>, <<0, FDiv(One, s), 0, 0>>,
                                <<0, 0, FDiv(One, s), 0>>, <<0, 0, 0, One>>)]

\* --------------------------------------------------------------------- Ray

ray(origin, direction) == [origin |-> origin, direction |-> direction]

position(r, t) == TAdd(r.origin, TScale(r.direction, t))

RayTransform(r, m) == ray(MatMulTuple(m, r.origin), MatMulTuple(m, r.direction))

\* ------------------------------------------------------------------- Color

Color(r, g, b) == [r |-> r, g |-> g, b |-> b]

BLACK == Color(0, 0, 0)

WHITE == Color(One, One, One)

\* f32::min / f32::max per channel.
clamp(c) == Color(Max(Min(c.r, One), 0), Max(Min(c.g, One), 0), Max(Min(c.b, One), 0))

CAdd(a, b) == Color(a.r + b.r, a.g + b.g, a.b + b.b)

CMul(a, b) == Color(FMul(a.r, b.r), FMul(a.g, b.g), FMul(a.b, b.b))

CScale(a, s) == Color(FMul(a.r, s), FMul(a.g, s), FMul(a.b, s))

\* ----------------------------------------------------------- Intersections

\* f32::INFINITY, the mark of an unused slot of the Intersections container.
INFINITY == 1000000000

\* Intersections::new()
NewIntersections == [t0 |-> INFINITY, t1 |-> INFINITY]

\* A push that overwrites t0 and forgets the value it held.
push_Overwrite(xs, t) ==
    IF t < xs.t0 THEN [t0 |-> t, t1 |-> xs.t1]
    ELSE IF t < xs.t1 THEN [t0 |-> xs.t0, t1 |-> t]
    ELSE xs

\* Intersections::push
push(xs, t) ==
    IF t < xs.t0 THEN [t0 |-> t, t1 |-> xs.t0]
    ELSE IF t < xs.t1 THEN [t0 |-> xs.t0, t1 |-> t]
    ELSE xs

\* Intersections::len
len(xs) == IF xs.t1 < INFINITY THEN 2 ELSE IF xs.t0 < INFINITY THEN 1 ELSE 0

\* The values the Iterator implementation of Intersections yields, in order.
IterValues(xs) ==
    IF xs.t0 < INFINITY
    THEN (IF xs.t1 < INFINITY THEN <<xs.t0, xs.t1>> ELSE <<xs.t0>>)
    ELSE <<>>

\* ---------------------------------------------------------------- Geometry

\* The variants of enum Geometry.
Geometry_plane == [shape |-> "Plane"]

Geometry_sphere == [shape |-> "Sphere"]

Geometry_cube == [shape |-> "Cube"]

Geometry_test == [shape |-> "TestShape"]

Geometry_Cone(min, max, closed) == [shape |-> "Cone", min |-> min, max |-> max, closed |-> closed]

Geometry_Cylinder(min, max, closed) ==
    [shape |-> "Cylinder", min |-> min, max |-> max, closed |-> closed]

\* v.abs() < 1e-5
Negligible(v) == Abs(v) <= (One - 1) \div 100000

\* a <= b + 1e-5
AtMostNearly(a, b) == a - b <= One \div 100000

plane_intersect(r) ==
    IF Abs(r.direction.y) > 0
    THEN push(NewIntersections, FDiv(-r.origin.y, r.direction.y))
    ELSE NewIntersections

plane_normal_at(point) == vector3(0, One, 0)

sphere_intersect(r) ==
    LET sphere_to_ray == [r.origin EXCEPT !.w = 0]
        a == dot(r.direction, r.direction)
        b == dot(r.direction, sphere_to_ray)
        c == dot(sphere_to_ray, sphere_to_ray) - One
        discriminant == TDiv(b * b - a * c, One)
    IN IF discriminant >= 0
       THEN LET d_sqrt == FSqrt(discriminant)
            IN push(push(NewIntersections, FDiv(-b - d_sqrt, a)), FDiv(-b + d_sqrt, a))
       ELSE NewIntersections

sphere_normal_at(point) == [point EXCEPT !.w = 0]

\* check_axis of cube.rs: <<t0, t1>>. For a zero direction the reciprocal is
\* infinite and the products are infinite, or NaN where the other factor is
\* 0; f32::max and f32::min pass over a NaN, as they do over -inf and +inf.
check_axis(origin, direction) ==
    IF direction = 0
    THEN <<IF -One - origin > 0 THEN INFINITY ELSE -INFINITY,
           IF One - origin < 0 THEN -INFINITY ELSE INFINITY>>
    ELSE IF direction > 0
         THEN <<FDiv(-One - origin, direction), FDiv(One - origin, direction)>>
         ELSE <<FDiv(One - origin, direction), FDiv(-One - origin, direction)>>

\* cube.rs intersect from tmin and tmax
cube_between(tmin, tmax) ==
    IF tmin <= tmax THEN push(push(NewIntersections, tmin), tmax) ELSE NewIntersections

\* cube.rs intersect from the <<t0, t1>> of the three axes
cube_axes(x, y, z) == cube_between(Max(Max(x[1], y[1]), z[1]), Min(Min(x[2], y[2]), z[2]))

cube_intersect(r) ==
    cube_axes(check_axis(r.origin.x, r.direction.x), check_axis(r.origin.y, r.direction.y),
              check_axis(r.origin.z, r.direction.z))

\* cube.rs normal_at from maxc
cube_normal_from(point, maxc) ==
    IF maxc = Abs(point.x) THEN vector3(point.x, 0, 0)
    ELSE IF maxc = Abs(point.y) THEN vector3(0, point.y, 0)
    ELSE vector3(0, 0, point.z)

cube_normal_at(point) ==
    cube_normal_from(point, Max(Max(Abs(point.x), Abs(point.y)), Abs(point.z)))

\* The x, y and z of the point of a ray at t.
XAt(r, t) == FMul(r.direction.x, t) + r.origin.x

YAt(r, t) == FMul(r.direction.y, t) + r.origin.y

ZAt(r, t) == FMul(r.direction.z, t) + r.origin.z

\* x * x + z * z
SumSquares(x, z) == TDiv(x * x + z * z, One)

\* The square of the distance from the y axis of the point of the ray at t.
CapDistance2(r, t) == SumSquares(XAt(r, t), ZAt(r, t))

\* (bound - ray.origin.y) / ray.direction.y of intersect_caps
cap_t(r, bound) == FDiv(bound - r.origin.y, r.direction.y)

\* check_cap of cone.rs
cone_check_cap(r, t, radius) == AtMostNearly(CapDistance2(r, t), radius)

\* if check_cap(ray, t, radius) { xs.push(t) } of cone.rs
cone_push_cap(xs, r, t, radius) == IF cone_check_cap(r, t, radius) THEN push(xs, t) ELSE xs

\* intersect_caps of cone.rs, for finite min and max.
cone_intersect_caps(r, xs, min, max, closed) ==
    IF ~closed \/ Negligible(r.direction.y) THEN xs
    ELSE cone_push_cap(cone_push_cap(xs, r, cap_t(r, min), Abs(min)), r, cap_t(r, max), Abs(max))

\* if min < y && y < max { xs.push(t) }
PushIfBetween(xs, r, min, max, t) ==
    IF min < YAt(r, t) /\ YAt(r, t) < max THEN push(xs, t) ELSE xs

\* The two pushes of the roots whose y lies strictly between min and max.
PushBetween(xs, r, min, max, tmin, tmax) ==
    PushIfBetween(PushIfBetween(xs, r, min, max, tmin), r, min, max, tmax)

\* The discriminant b * b - a * c, set to 0 where it is negligible.
Discriminant(a, b, c) ==
    IF Negligible(TDiv(b * b - a * c, One)) THEN 0 ELSE TDiv(b * b - a * c, One)

\* tmin and tmax of the roots (-b - d_sqrt) / a and (-b + d_sqrt) / a, pushed
\* where they lie between min and max.
Roots(r, min, max, a, b, d_sqrt) ==
    PushBetween(NewIntersections, r, min, max,
                Min(FDiv(-b - d_sqrt, a), FDiv(-b + d_sqrt, a)),
                Max(FDiv(-b - d_sqrt, a), FDiv(-b + d_sqrt, a)))

\* cone.rs intersect from a, b and c up to the call of intersect_caps.
cone_quadratic(r, min, max, a, b, c) ==
    IF Negligible(a)
    THEN (IF Negligible(b) THEN <<NewIntersections, TRUE>>
          ELSE <<push(NewIntersections, FDiv(-c, 4 * b)), FALSE>>)
    ELSE IF Discriminant(a, b, c) < 0 THEN <<NewIntersections, TRUE>>
         ELSE <<Roots(r, min, max, a, b, FSqrt(Discriminant(a, b, c))), FALSE>>

\* The body of cone.rs intersect up to the call of intersect_caps: <<the
\* container, whether the function returned early>>.
cone_body(r, min, max) ==
    cone_quadratic(r, min, max,
                   TDiv(r.direction.x * r.direction.x + r.direction.z * r.direction.z
                        - r.direction.y * r.direction.y, One),
                   TDiv(r.origin.x * r.direction.x + r.origin.z * r.direction.z
                        - r.origin.y * r.direction.y, One),
                   TDiv(r.origin.x * r.origin.x + r.origin.z * r.origin.z
                        - r.origin.y * r.origin.y, One))

\* A cone.rs intersect that leaves out the roots of the body.
cone_intersect_CapsOnly(r, min, max, closed) ==
    cone_intersect_caps(r, NewIntersections, min, max, closed)

\* The end of cone.rs intersect: the caps, unless it returned early.
cone_finish(r, body, min, max, closed) ==
    IF body[2] THEN body[1] ELSE cone_intersect_caps(r, body[1], min, max, closed)

\* cone.rs intersect
cone_intersect(r, min, max, closed) == cone_finish(r, cone_body(r, min, max), min, max, closed)

\* cone.rs normal_at from d2 = point.x * point.x + point.z * point.z
cone_normal_from(point, min, max, d2) ==
    IF d2 < Abs(max) /\ AtMostNearly(max, point.y) THEN vector3(0, One, 0)
    ELSE IF d2 < Abs(min) /\ AtMostNearly(point.y, min) THEN vector3(0, -One, 0)
    ELSE vector3(point.x, IF point.y > 0 THEN -FSqrt(d2) ELSE FSqrt(d2), point.z)

\* cone.rs normal_at
cone_normal_at(point, min, max) == cone_normal_from(point, min, max, SumSquares(point.x, point.z))

\* check_cap of cylinder.rs
cylinder_check_cap(r, t) == AtMostNearly(CapDistance2(r, t), One)

\* if check_cap(ray, t) { xs.push(t) } of cylinder.rs
cylinder_push_cap(xs, r, t) == IF cylinder_check_cap(r, t) THEN push(xs, t) ELSE xs

\* intersect_caps of cylinder.rs, for finite min and max.
cylinder_intersect_caps(r, xs, min, max, closed) ==
    IF ~closed \/ Negligible(r.direction.y) THEN xs
    ELSE cylinder_push_cap(cylinder_push_cap(xs, r, cap_t(r, min)), r, cap_t(r, max))

\* cylinder.rs intersect from a, b and c up to the call of intersect_caps.
cylinder_quadratic(r, min, max, a, b, c) ==
    IF Negligible(a) THEN <<NewIntersections, FALSE>>
    ELSE IF Discriminant(a, b, c) < 0 THEN <<NewIntersections, TRUE>>
         ELSE <<Roots(r, min, max, a, b, FSqrt(Discriminant(a, b, c))), FALSE>>

\* The body of cylinder.rs intersect up to the call of intersect_caps: <<the
\* container, whether the function returned early>>.
cylinder_body(r, min, max) ==
    cylinder_quadratic(r, min, max,
                       TDiv(r.direction.x * r.direction.x + r.direction.z * r.direction.z, One),
                       TDiv(r.origin.x * r.direction.x + r.origin.z * r.direction.z, One),
                       TDiv(r.origin.x * r.origin.x + r.origin.z * r.origin.z, One) - One)

\* The end of cylinder.rs intersect: the caps, unless it returned early.
cylinder_finish(r, body, min, max, closed) ==
    IF body[2] THEN body[1] ELSE cylinder_intersect_caps(r, body[1], min, max, closed)

\* cylinder.rs intersect
cylinder_intersect(r, min, max, closed) ==
    cylinder_finish(r, cylinder_body(r, min, max), min, max, closed)

\* cylinder.rs normal_at from d2 = point.x * point.x + point.z * point.z
cylinder_normal_from(point, min, max, d2) ==
    IF d2 < One /\ AtMostNearly(max, point.y) THEN vector3(0, One, 0)
    ELSE IF d2 < One /\ AtMostNearly(point.y, min) THEN vector3(0, -One, 0)
    ELSE vector3(point.x, 0, point.z)

\* cylinder.rs normal_at
cylinder_normal_at(point, min, max) ==
    cylinder_normal_from(point, min, max, SumSquares(point.x, point.z))

\* Geometry::intersect
intersect(geometry, r) ==
    IF geometry.shape = "Sphere" THEN sphere_intersect(r)
    ELSE IF geometry.shape = "Plane" THEN plane_intersect(r)
    ELSE IF geometry.shape = "Cube" THEN cube_intersect(r)
    ELSE IF geometry.shape = "Cone"
         THEN cone_intersect(r, geometry.min, geometry.max, geometry.closed)
    ELSE IF geometry.shape = "Cylinder"
         THEN cylinder_intersect(r, geometry.min, geometry.max, geometry.closed)
    ELSE NewIntersections

\* Geometry::normal_at
normal_at(geometry, point) ==
    IF geometry.shape = "Sphere" THEN sphere_normal_at(point)
    ELSE IF geometry.shape = "Plane" THEN plane_normal_at(point)
    ELSE IF geometry.shape = "Cube" THEN cube_normal_at(point)
    ELSE IF geometry.shape = "Cone" THEN cone_normal_at(point, geometry.min, geometry.max)
    ELSE IF geometry.shape = "Cylinder" THEN cylinder_normal_at(point, geometry.min, geometry.max)
    ELSE vector3(0, 0, 0)

\* ---------------------------------------------------------------- Material

\* The first values SmallRng::seed_from_u64(0) generates.
Samples == <<251, 913, 434, 92>>

\* rng.gen::<f32>() in the generator state g, and the state it leaves.
gen(g) == Samples[(g % Len(Samples)) + 1]

NextRng(g) == (g + 1) % Len(Samples)

\* Texture::evaluate of the material's texture: the constant colour, or for
\* white noise the colour scaled by the next value of the generator.
evaluate(material, g) ==
    IF material.texture = "WhiteNoise" THEN CScale(material.color, gen(g)) ELSE material.color

\* The generator after Texture::evaluate.
Drawn(material, g) == IF material.texture = "WhiteNoise" THEN NextRng(g) ELSE g

\* Material::new(): texture is Texture::constant(color).
NewMaterial ==
    [texture |-> "Constant", color |-> WHITE, ambient |-> 100, diffuse |-> 900, specular |-> 900, shininess |-> 200,
     reflective |-> 0, transparency |-> 0, refractive_index |-> One]

\* A lighting whose specular term does not wait for the diffuse term.
lighting_SpecularAlone(material, g, transform, light, point, eyev, normalv, in_shadow) ==
    LET base_color == evaluate(material, g)
        effective_color == CMul(base_color, light.intensity)
        ambient == CScale(effective_color, material.ambient)
        lightv == normalize(TSub(light.position, point))
        light_dot_normal == dot(lightv, normalv)
        diffuse == CScale(CScale(effective_color, material.diffuse), light_dot_normal)
        reflect_dot_eye == dot(reflect(TNeg(lightv), normalv), eyev)
        specular == CScale(CScale(light.intensity, material.specular),
                           FPowi(reflect_dot_eye, material.shininess))
        lit == IF light_dot_normal >= 0 THEN CAdd(ambient, diffuse) ELSE ambient
    IN IF in_shadow THEN ambient
       ELSE IF reflect_dot_eye >= 0 THEN CAdd(lit, specular) ELSE lit

\* Material::lighting; the generator it is handed is left in Drawn(material, g).
lighting(material, g, transform, light, point, eyev, normalv, in_shadow) ==
    LET base_color == evaluate(material, g)
        effective_color == CMul(base_color, light.intensity)
        ambient == CScale(effective_color, material.ambient)
        lightv == normalize(TSub(light.position, point))
        light_dot_normal == dot(lightv, normalv)
        diffuse == CScale(CScale(effective_color, material.diffuse), light_dot_normal)
        reflectv == reflect(TNeg(lightv), normalv)
        reflect_dot_eye == dot(reflectv, eyev)
        factor == FPowi(reflect_dot_eye, material.shininess)
        specular == CScale(CScale(light.intensity, material.specular), factor)
    IN IF in_shadow THEN ambient
       ELSE IF light_dot_normal >= 0
            THEN (IF reflect_dot_eye >= 0
                  THEN CAdd(CAdd(ambient, diffuse), specular)
                  ELSE CAdd(ambient, diffuse))
            ELSE ambient

\* ------------------------------------------------------------------- Scene

VARIABLES
    lights,      \* Scene.lights: Vec<Light>
    transforms,  \* Scene.transforms: Vec<Transform>
    materials,   \* Scene.materials: Vec<Material>
    geometrys,   \* Scene.geometrys: Vec<Geometry>
    max_depth,   \* Scene.max_depth
    pc,          \* "idle", "running" (inside color_at), "done" (color_at returned), "panic"
    stack,       \* the call stack of color_at_remaining, innermost frame last
    primary,     \* the ray of the current color_at call
    result,      \* the colour color_at returned
    ret,         \* the last return of color_at_remaining: <<>> or <<[color, remaining]>>
    probe,       \* the last nearest_intersection of color_at_remaining: <<>> or <<[xs, found]>>
    count,       \* per color_at call: invocations, intersection searches, shadow tests, nested rays
    issued,      \* the add_object calls so far: [object_id, object] with the id each returned
    build,       \* "debug" or "release": whether debug_assert! is compiled in
    builder,     \* the Transform under construction: <<>> or <<Transform>>
    camera,      \* the Camera that renders: <<>> or <<Camera>>
    image,       \* the Canvas of the running or last render: <<>> or <<[width, height, data, written]>>
    loop,        \* the loop variables of Camera::render: <<>> or <<[x, y, returned]>>
    workers,     \* the render workers: the rows each owns and where it is in them
    rng          \* the state of the random generator handed to Material::lighting

\* The state outside the Scene and its running color_at call.
outside == <<build, builder, camera, image, loop, workers>>

vars == <<lights, transforms, materials, geometrys, max_depth, pc, stack, primary, result, ret, probe, count,
          issued, rng, outside>>

Intersection(t, object_id) == [t |-> t, object_id |-> object_id]

\* Option<T>
None == <<>>

Some(x) == <<x>>

\* An intersections that stops at the first object the ray intersects.
RECURSIVE intersections_FirstOnly(_, _)
intersections_FirstOnly(world_ray, object_id) ==
    IF object_id >= Len(transforms) THEN <<>>
    ELSE LET local_ray == RayTransform(world_ray, transforms[object_id + 1].world_to_local)
             ts == IterValues(intersect(geometrys[object_id + 1], local_ray))
         IN IF Len(ts) > 0
            THEN [k \in 1..Len(ts) |-> Intersection(ts[k], object_id)]
            ELSE intersections_FirstOnly(world_ray, object_id + 1)

\* Scene::intersections: every object in insertion order, ids counted from 0.
RECURSIVE IntersectionsFrom(_, _)
IntersectionsFrom(world_ray, object_id) ==
    IF object_id >= Len(transforms) THEN <<>>
    ELSE LET local_ray == RayTransform(world_ray, transforms[object_id + 1].world_to_local)
             ts == IterValues(intersect(geometrys[object_id + 1], local_ray))
         IN [k \in 1..Len(ts) |-> Intersection(ts[k], object_id)]
            \o IntersectionsFrom(world_ray, object_id + 1)

intersections(world_ray) == IntersectionsFrom(world_ray, 0)

\* Iterator::min_by on partial_cmp of t: of several equally small elements the
\* first is returned.
RECURSIVE MinByT(_, _, _)
MinByT(xs, k, best) ==
    IF k > Len(xs) THEN best
    ELSE MinByT(xs, k + 1, IF xs[k].t < best.t THEN xs[k] ELSE best)

\* A filter that keeps the intersections behind the origin too.
FilterNonNegative_All(xs) == xs

FilterNonNegative(xs) == SelectSeq(xs, LAMBDA i : i.t >= 0)

\* hit(intersections) of object.rs
hit(xs) ==
    LET f == FilterNonNegative(xs)
    IN IF Len(f) = 0 THEN None ELSE Some(MinByT(f, 2, f[1]))

\* A selection that takes the least t of all intersections, negative t included.
nearest_intersection_Unfiltered(world_ray) ==
    LET f == intersections(world_ray)
    IN IF Len(f) = 0 THEN None ELSE Some(MinByT(f, 2, f[1]))

\* Scene::nearest_intersection
nearest_intersection(world_ray) ==
    LET f == FilterNonNegative(intersections(world_ray))
    IN IF Len(f) = 0 THEN None ELSE Some(MinByT(f, 2, f[1]))

\* A shadow test that takes any hit along the ray, the light's distance ignored.
is_shadowed_AnyHit(point, light) ==
    nearest_intersection(ray(point, normalize(TSub(light.position, point)))) # None

\* Scene::is_shadowed
is_shadowed(point, light) ==
    LET v == TSub(light.position, point)
        distance == magnitude(v)
        direction == normalize(v)
        found == nearest_intersection(ray(point, direction))
    IN IF found # None THEN found[1].t < distance ELSE FALSE

\* Vec::sort_by on partial_cmp of t: a stable sort.
RECURSIVE SortByT(_)
SortByT(xs) ==
    IF Len(xs) <= 1 THEN xs
    ELSE LET rest == SortByT(SubSeq(xs, 1, Len(xs) - 1))
             x == xs[Len(xs)]
             before == SelectSeq(rest, LAMBDA i : i.t <= x.t)
             after == SelectSeq(rest, LAMBDA i : i.t > x.t)
         IN before \o <<x>> \o after

Contains(s, e) == \E k \in 1..Len(s) : s[k] = e

\* The refractive index of the object entered first, not last.
TopIndex_First(containers) ==
    IF Len(containers) = 0 THEN One
    ELSE materials[containers[1] + 1].refractive_index

\* The refractive index of the object on top of containers, 1.0 if it is empty.
TopIndex(containers) ==
    IF Len(containers) = 0 THEN One
    ELSE materials[containers[Len(containers)] + 1].refractive_index

\* The loop of Scene::refractive_indexes from position k on.
RECURSIVE RefractiveWalk(_, _, _, _, _)
\* A loop body that puts the object on containers at each of its intersections.
Toggle_PushOnly(containers, object_id) == Append(containers, object_id)

\* containers.retain(|o| o != &i.object_id) when containers holds the object
\* of the intersection, containers.push(i.object_id) otherwise.
Toggle(containers, object_id) ==
    IF Contains(containers, object_id)
    THEN SelectSeq(containers, LAMBDA o : o # object_id)
    ELSE Append(containers, object_id)

RefractiveWalk(all_intersections, k, intersection, containers, n1) ==
    IF k > Len(all_intersections) THEN <<n1, One>>
    ELSE LET i == all_intersections[k]
             n1_here == IF i = intersection THEN TopIndex(containers) ELSE n1
             toggled == IF Contains(containers, i.object_id)
                        THEN SelectSeq(containers, LAMBDA o : o # i.object_id)
                        ELSE Append(containers, i.object_id)
         IN IF i = intersection THEN <<n1_here, TopIndex(toggled)>>
            ELSE RefractiveWalk(all_intersections, k + 1, intersection, toggled, n1_here)

\* A walk over the intersections in the order the objects were added, unsorted.
refractive_indexes_Unsorted(world_ray, intersection) ==
    RefractiveWalk(intersections(world_ray), 1, intersection, <<>>, One)

\* Scene::refractive_indexes
refractive_indexes(world_ray, intersection) ==
    RefractiveWalk(SortByT(intersections(world_ray)), 1, intersection, <<>>, One)

\* A schlick whose r0 is not squared.
schlick_Unsquared(eyev, normalv, n1, n2) ==
    LET cos == dot(eyev, normalv)
        n == FDiv(n1, n2)
        sin2_t == FMul(FMul(n, n), One - FMul(cos, cos))
        r0 == FDiv(n1 - n2, n1 + n2)
    IN IF n1 > n2 /\ sin2_t > One THEN One
       ELSE LET cos2 == IF n1 > n2 THEN FSqrt(One - sin2_t) ELSE cos
            IN r0 + FMul(One - r0, FPowi(One - cos2, 5))

\* schlick
schlick(eyev, normalv, n1, n2) ==
    LET cos == dot(eyev, normalv)
        n == FDiv(n1, n2)
        sin2_t == FMul(FMul(n, n), One - FMul(cos, cos))
        r == FDiv(n1 - n2, n1 + n2)
        r0 == FMul(r, r)
    IN IF n1 > n2 /\ sin2_t > One THEN One
       ELSE LET cos2 == IF n1 > n2 THEN FSqrt(One - sin2_t) ELSE cos
            IN r0 + FMul(One - r0, FPowi(One - cos2, 5))

\* Object::intersect of object.rs for Shape::Plane: the ts of the Vec it
\* returns. The threshold on |direction.y| is 1e-2.
object_intersect_Plane(transform, r) ==
    LET transformed_ray == RayTransform(r, inverse(transform))
    IN IF Abs(transformed_ray.direction.y) <= (One - 1) \div 100 THEN <<>>
       ELSE <<FDiv(-transformed_ray.origin.y, transformed_ray.direction.y)>>

\* A world_normal_at that returns the normal as the geometry gives it.
world_normal_at_Unflipped(transform, geometry, world_point, eye_vector) ==
    LET local_point == MatMulTuple(transform.world_to_local, world_point)
        local_normal == normal_at(geometry, local_point)
    IN normalize([MatMulTuple(transpose(transform.world_to_local), local_normal) EXCEPT !.w = 0])

\* world_normal_at
world_normal_at(transform, geometry, world_point, eye_vector) ==
    LET local_point == MatMulTuple(transform.world_to_local, world_point)
        local_normal == normal_at(geometry, local_point)
        world_normal == normalize([MatMulTuple(transpose(transform.world_to_local), local_normal)
                                      EXCEPT !.w = 0])
    IN IF dot(world_normal, eye_vector) < 0 THEN TNeg(world_normal) ELSE world_normal

\* ------------------------------------------------- the inputs of the model

\* At most this many add_object and add_light calls are made on a scene.
MaxObjects == 2

MaxLights == 2

\* Scene::new() sets max_depth to 5.
DefaultMaxDepth == 5

\* The values of the max_depth field the model runs with.
DepthChoices == {0, 1, DefaultMaxDepth}

Object(geometry, transform, material) ==
    [geometry |-> geometry, transform |-> transform, material |-> material]

\* A fully reflective plane y = offset.
Mirror(offset) ==
    Object(Geometry_plane, Translate(0, offset, 0), [NewMaterial EXCEPT !.reflective = One])

\* The unit sphere, reflective and transparent (glass).
GlassBall ==
    Object(Geometry_sphere, NewTransform,
           [NewMaterial EXCEPT !.reflective = 500, !.transparency = One, !.refractive_index = 1500])

\* A sphere of radius 2, transparent only.
Bubble ==
    Object(Geometry_sphere, Scale(2 * One),
           [NewMaterial EXCEPT !.color = Color(One, 0, 0), !.transparency = 500,
                               !.refractive_index = 2 * One])

\* A sphere of radius 1/2 with the default material.
Matte == Object(Geometry_sphere, Scale(500), NewMaterial)

ObjectChoices == {Mirror(-One), Mirror(One), GlassBall, Bubble}

Light(at, intensity) == [position |-> at, intensity |-> intensity]

LightChoices ==
    {Light(point3(0, 0, 0), WHITE),
     Light(point3(-10 * One, 10 * One, -10 * One), Color(One, 500, 200))}

RayChoices ==
    {ray(point3(0, 0, 0), vector3(0, One, 0)),
     ray(point3(800, 0, 0), vector3(0, One, 0)),
     ray(point3(1600, 0, 0), vector3(0, One, 0))}

\* ------------------------------------------------------- the state machine

NoCount == [calls |-> 0, searches |-> 0, shadows |-> 0, reflections |-> 0, refractions |-> 0]

NoTuple == tuple4(0, 0, 0, 0)

\* Scene::new()
Init ==
    /\ lights = <<>>
    /\ transforms = <<>>
    /\ materials = <<>>
    /\ geometrys = <<>>
    /\ max_depth \in DepthChoices
    /\ pc = "idle"
    /\ stack = <<>>
    /\ primary = None
    /\ result = None
    /\ ret = None
    /\ probe = None
    /\ count = NoCount
    /\ issued = <<>>
    /\ build = "debug"
    /\ builder = None
    /\ camera = None
    /\ image = None
    /\ loop = None
    /\ workers = <<>>
    /\ rng = 0

Forget ==
    /\ primary' = None
    /\ result' = None
    /\ ret' = None
    /\ probe' = None
    /\ count' = NoCount

\* Scene::add_light
add_light(light) ==
    /\ pc \in {"idle", "done"}
    /\ Len(lights) < MaxLights
    /\ lights' = Append(lights, light)
    /\ pc' = "idle"
    /\ Forget
    /\ UNCHANGED <<transforms, materials, geometrys, max_depth, stack, issued, rng, outside>>

\* An id counted from 1.
NextObjectId_FromOne == Len(transforms) + 1

\* let object_id = self.transforms.len()
NextObjectId == Len(transforms)

\* Scene::add_object
add_object(object) ==
    /\ pc \in {"idle", "done"}
    /\ Len(transforms) < MaxObjects
    /\ transforms' = Append(transforms, object.transform)
    /\ materials' = Append(materials, object.material)
    /\ geometrys' = Append(geometrys, object.geometry)
    /\ issued' = Append(issued, [object_id |-> NextObjectId, object |-> object])
    /\ pc' = IF build = "debug"
                /\ ~((Len(transforms') = Len(materials')) = (Len(geometrys') = NextObjectId + 1))
             THEN "panic"   \* debug_assert!
             ELSE "idle"
    /\ Forget
    /\ UNCHANGED <<lights, max_depth, stack, rng, outside>>

\* A new activation of color_at_remaining(world_ray, remaining).
NewFrame(world_ray, remaining) ==
    [world_ray |-> world_ray, remaining |-> remaining, stage |-> "enter",
     intersection |-> None, world_point |-> NoTuple, eye_vector |-> NoTuple,
     world_normal |-> NoTuple, over_point |-> NoTuple, under_point |-> NoTuple,
     surface_color |-> BLACK, reflect_color |-> BLACK, refract_color |-> BLACK,
     n1 |-> One, n2 |-> One, cast_reflect |-> FALSE, cast_refract |-> FALSE]

\* Scene::color_at: the call of color_at_remaining(world_ray, self.max_depth).
color_at(world_ray) ==
    /\ pc \in {"idle", "done"}
    /\ pc' = "running"
    /\ stack' = <<NewFrame(world_ray, max_depth)>>
    /\ primary' = Some(world_ray)
    /\ result' = None
    /\ ret' = None
    /\ probe' = None
    /\ count' = [NoCount EXCEPT !.calls = 1]
    /\ UNCHANGED <<lights, transforms, materials, geometrys, max_depth, issued, rng, outside>>

Top == stack[Len(stack)]

SetTop(frame) == [stack EXCEPT ![Len(stack)] = frame]

MaterialOf(frame) == materials[frame.intersection[1].object_id + 1]

\* A color_at that returns what color_at_remaining returned as it is.
TopLevelColor_Unclamped(c) == c

\* The clamp color_at applies to what color_at_remaining returned.
TopLevelColor(c) == clamp(c)

\* The use of a nested call's colour by color_at_remaining.
ReflectedPart(c, material) == CScale(c, material.reflective)

RefractedPart(c, material) == CScale(c, material.transparency)

\* The innermost activation returns c: to color_at, or into the caller's
\* reflect_color or refract_color.
Return(c) ==
    /\ ret' = Some([color |-> c, remaining |-> Top.remaining])
    /\ IF Len(stack) = 1
       THEN /\ stack' = <<>>
            /\ result' = Some(TopLevelColor(c))
            /\ pc' = "done"
       ELSE LET caller == stack[Len(stack) - 1]
                resumed == IF caller.stage = "reflecting"
                           THEN [caller EXCEPT !.reflect_color = ReflectedPart(c, MaterialOf(caller)),
                                               !.stage = "refract"]
                           ELSE [caller EXCEPT !.refract_color = RefractedPart(c, MaterialOf(caller)),
                                               !.stage = "combine"]
            IN /\ stack' = Append(SubSeq(stack, 1, Len(stack) - 2), resumed)
               /\ UNCHANGED <<result, pc>>

\* A color_at_remaining with no early return.
DepthExhausted_Never(remaining) == FALSE

\* The early return of color_at_remaining.
DepthExhausted(remaining) == remaining = 0

\* The offset of over_point and under_point from the surface, 1e-3.
Offset == One \div 1000

\* The surface colour of color_at_remaining: the first light only.
surface_color(material, g, transform, world_point, eye_vector, world_normal, over_point) ==
    LET light == lights[1]
        in_shadow == is_shadowed(over_point, light)
    IN lighting(material, g, transform, light, world_point, eye_vector, world_normal, in_shadow)

\* The activation after the normal and the surface colour are computed, with
\* the generator in state g.
Shaded(frame, intersection, g) ==
    LET transform == transforms[intersection.object_id + 1]
        material == materials[intersection.object_id + 1]
        geometry == geometrys[intersection.object_id + 1]
        world_point == position(frame.world_ray, intersection.t)
        eye_vector == TNeg(frame.world_ray.direction)
        world_normal == world_normal_at(transform, geometry, world_point, eye_vector)
        over_point == TAdd(world_point, TScale(world_normal, Offset))
        under_point == TSub(world_point, TScale(world_normal, Offset))
    IN [frame EXCEPT !.intersection = Some(intersection),
                     !.world_point = world_point,
                     !.eye_vector = eye_vector,
                     !.world_normal = world_normal,
                     !.over_point = over_point,
                     !.under_point = under_point,
                     !.surface_color = surface_color(material, g, transform, world_point, eye_vector,
                                                     world_normal, over_point),
                     !.stage = "reflect"]

\* color_at_remaining from its entry to the surface colour.
Enter ==
    /\ pc = "running"
    /\ Top.stage = "enter"
    /\ IF DepthExhausted(Top.remaining)
       THEN /\ Return(BLACK)
            /\ UNCHANGED <<probe, count, rng>>
       ELSE LET found == nearest_intersection(Top.world_ray)
            IN /\ probe' = Some([xs |-> intersections(Top.world_ray), found |-> found])
               /\ IF found = None
                  THEN /\ Return(BLACK)
                       /\ count' = [count EXCEPT !.searches = @ + 1]
                       /\ UNCHANGED rng
                  ELSE IF Len(lights) = 0
                       THEN \* self.lights[0]: index out of bounds
                            /\ pc' = "panic"
                            /\ count' = [count EXCEPT !.searches = @ + 1]
                            /\ UNCHANGED <<stack, result, ret, rng>>
                       ELSE /\ stack' = SetTop(Shaded(Top, found[1], rng))
                            /\ rng' = Drawn(materials[found[1].object_id + 1], rng)
                            /\ count' = [count EXCEPT !.searches = @ + 1, !.shadows = @ + 1]
                            /\ UNCHANGED <<pc, result, ret>>
    /\ UNCHANGED <<lights, transforms, materials, geometrys, max_depth, primary, issued, outside>>

\* A reflection cast for every material, reflective or not.
ReflectionWanted_Always(material, remaining) == material.reflective >= 0 /\ remaining > 0

\* The conditions under which a reflection and a refraction are computed.
ReflectionWanted(material, remaining) == material.reflective > 0 /\ remaining > 0

RefractionWanted(material, remaining) == material.transparency > 0 /\ remaining > 0

\* A nested call that is handed the depth of its caller.
NestedRemaining_Same(remaining) == remaining

\* The depth handed to a nested call.
NestedRemaining(remaining) == remaining - 1

\* color_at_remaining: the reflect colour, up to the nested call.
Reflect ==
    /\ pc = "running"
    /\ Top.stage = "reflect"
    /\ IF ReflectionWanted(MaterialOf(Top), Top.remaining)
       THEN LET reflect_vector == reflect(Top.world_ray.direction, Top.world_normal)
                reflect_ray == ray(Top.over_point, reflect_vector)
            IN /\ stack' = Append(SetTop([Top EXCEPT !.stage = "reflecting", !.cast_reflect = TRUE]),
                                  NewFrame(reflect_ray, NestedRemaining(Top.remaining)))
               /\ count' = [count EXCEPT !.calls = @ + 1, !.reflections = @ + 1]
       ELSE /\ stack' = SetTop([Top EXCEPT !.reflect_color = BLACK, !.stage = "refract"])
            /\ UNCHANGED count
    /\ UNCHANGED <<lights, transforms, materials, geometrys, max_depth, pc, primary, result, ret, probe,
                   issued, rng, outside>>

\* sin2_t of color_at_remaining.
RefractSin2T(eye_vector, world_normal, n1, n2) ==
    LET n_ratio == FDiv(n1, n2)
        cos_i == dot(eye_vector, world_normal)
    IN FMul(FMul(n_ratio, n_ratio), One - FMul(cos_i, cos_i))

\* A refraction that never takes the total internal reflection branch.
TotalInternalReflection_Never(eye_vector, world_normal, n1, n2) == FALSE

\* Whether color_at_remaining takes its total internal reflection branch.
TotalInternalReflection(eye_vector, world_normal, n1, n2) ==
    RefractSin2T(eye_vector, world_normal, n1, n2) > One

\* The direction of the refracted ray.
RefractDirection(eye_vector, world_normal, n1, n2) ==
    LET n_ratio == FDiv(n1, n2)
        cos_i == dot(eye_vector, world_normal)
        cos_t == FSqrt(One - RefractSin2T(eye_vector, world_normal, n1, n2))
    IN TSub(TScale(world_normal, FMul(n_ratio, cos_i) - cos_t), TScale(eye_vector, n_ratio))

\* color_at_remaining: n1 and n2, and the refract colour up to the nested call.
Refract ==
    /\ pc = "running"
    /\ Top.stage = "refract"
    /\ LET material == MaterialOf(Top)
           n == IF material.transparency > 0
                THEN refractive_indexes(Top.world_ray, Top.intersection[1])
                ELSE <<One, One>>
           indexed == [Top EXCEPT !.n1 = n[1], !.n2 = n[2]]
       IN IF RefractionWanted(material, Top.remaining)
          THEN IF TotalInternalReflection(Top.eye_vector, Top.world_normal, n[1], n[2])
               THEN /\ stack' = SetTop([indexed EXCEPT !.refract_color = BLACK, !.stage = "combine"])
                    /\ UNCHANGED count
               ELSE LET direction == RefractDirection(Top.eye_vector, Top.world_normal, n[1], n[2])
                        refract_ray == ray(Top.under_point, direction)
                    IN /\ stack' = Append(SetTop([indexed EXCEPT !.stage = "refracting",
                                                                 !.cast_refract = TRUE]),
                                          NewFrame(refract_ray, NestedRemaining(Top.remaining)))
                       /\ count' = [count EXCEPT !.calls = @ + 1, !.refractions = @ + 1]
          ELSE /\ stack' = SetTop([indexed EXCEPT !.refract_color = BLACK, !.stage = "combine"])
               /\ UNCHANGED count
    /\ UNCHANGED <<lights, transforms, materials, geometrys, max_depth, pc, primary, result, ret, probe,
                   issued, rng, outside>>

\* A combination that blends with the Schlick reflectance as soon as the
\* material is reflective or transparent.
Combined_Either(frame, material) ==
    IF material.reflective > 0 \/ material.transparency > 0
    THEN LET reflectance == schlick(frame.eye_vector, frame.world_normal, frame.n1, frame.n2)
         IN CAdd(CAdd(frame.surface_color, CScale(frame.reflect_color, reflectance)),
                 CScale(frame.refract_color, One - reflectance))
    ELSE CAdd(CAdd(frame.surface_color, frame.reflect_color), frame.refract_color)

\* The colour color_at_remaining returns at a hit.
Combined(frame, material) ==
    IF material.reflective > 0 /\ material.transparency > 0
    THEN LET reflectance == schlick(frame.eye_vector, frame.world_normal, frame.n1, frame.n2)
         IN CAdd(CAdd(frame.surface_color, CScale(frame.reflect_color, reflectance)),
                 CScale(frame.refract_color, One - reflectance))
    ELSE CAdd(CAdd(frame.surface_color, frame.reflect_color), frame.refract_color)

\* color_at_remaining: the Fresnel blend and the return.
Combine ==
    /\ pc = "running"
    /\ Top.stage = "combine"
    /\ Return(Combined(Top, MaterialOf(Top)))
    /\ UNCHANGED <<lights, transforms, materials, geometrys, max_depth, primary, probe, count,
                   issued, rng, outside>>

\* color_at_remaining as one evaluation, with the generator in state g: the
\* colour it returns, the state it leaves the generator in, and whether it
\* panicked at self.lights[0].
RECURSIVE color_at_remaining(_, _, _)

\* What color_at_remaining returns without a panic.
Returned(c, g) == [color |-> c, rng |-> g, panic |-> FALSE]

\* The Fresnel blend of the activation frame with what its nested calls
\* returned.
Combining(frame, material, reflected, refracted) ==
    IF reflected.panic THEN reflected
    ELSE IF refracted.panic THEN refracted
    ELSE Returned(Combined([frame EXCEPT
                               !.reflect_color = ReflectedPart(reflected.color, material),
                               !.refract_color = RefractedPart(refracted.color, material)],
                           material),
                  refracted.rng)

\* The refract colour, after the reflected ray returned.
Refracting(frame, material, reflected) ==
    Combining(frame, material, reflected,
              IF /\ ~reflected.panic
                 /\ RefractionWanted(material, frame.remaining)
                 /\ ~TotalInternalReflection(frame.eye_vector, frame.world_normal,
                                             frame.n1, frame.n2)
              THEN color_at_remaining(ray(frame.under_point,
                                          RefractDirection(frame.eye_vector, frame.world_normal,
                                                           frame.n1, frame.n2)),
                                      NestedRemaining(frame.remaining), reflected.rng)
              ELSE Returned(BLACK, reflected.rng))

\* The reflect colour, with the generator as the surface colour left it.
Reflecting(frame, material, g) ==
    Refracting(frame, material,
               IF ReflectionWanted(material, frame.remaining)
               THEN color_at_remaining(ray(frame.over_point,
                                           reflect(frame.world_ray.direction, frame.world_normal)),
                                       NestedRemaining(frame.remaining), g)
               ELSE Returned(BLACK, g))

\* The activation with n1 and n2.
Indexed(frame, material) ==
    IF material.transparency > 0
    THEN [frame EXCEPT !.n1 = refractive_indexes(frame.world_ray, frame.intersection[1])[1],
                       !.n2 = refractive_indexes(frame.world_ray, frame.intersection[1])[2]]
    ELSE frame

\* color_at_remaining once the nearest intersection is found.
Entered(world_ray, remaining, g, found) ==
    IF found = None THEN Returned(BLACK, g)
    ELSE IF Len(lights) = 0 THEN [color |-> BLACK, rng |-> g, panic |-> TRUE]
    ELSE Reflecting(Indexed(Shaded(NewFrame(world_ray, remaining), found[1], g),
                            materials[found[1].object_id + 1]),
                    materials[found[1].object_id + 1],
                    Drawn(materials[found[1].object_id + 1], g))

color_at_remaining(world_ray, remaining, g) ==
    IF DepthExhausted(remaining) THEN Returned(BLACK, g)
    ELSE Entered(world_ray, remaining, g, nearest_intersection(world_ray))

\* Scene::color_at as one evaluation.
ColorAt(world_ray, g) ==
    LET returned == color_at_remaining(world_ray, max_depth, g)
    IN [returned EXCEPT !.color = TopLevelColor(returned.color)]

\* The steps of a running color_at call.
Step == Enter \/ Reflect \/ Refract \/ Combine

Next ==
    \/ \E light \in LightChoices : add_light(light)
    \/ \E object \in ObjectChoices : add_object(object)
    \/ \E world_ray \in RayChoices : color_at(world_ray)
    \/ Enter
    \/ Reflect
    \/ Refract
    \/ Combine

Spec == Init /\ [][Next]_vars

\* ------------------------------------------------------------------ claims

\* C1: Scene::color_at terminates and returns a colour for every scene and
\* every ray: a call never aborts, a running call always has a next step, its
\* recursion is never deeper than max_depth + 1 activations and it makes at
\* most 2^(max_depth + 1) - 1 invocations of color_at_remaining.
C1_ColorAtReturns ==
    /\ pc # "panic"
    /\ pc = "running" =>
          /\ Len(stack) \in 1..(max_depth + 1)
          /\ Top.stage \in {"enter", "reflect", "refract", "combine"}
    /\ count.calls <= 2 ^ (max_depth + 1) - 1

\* C2: every nested color_at_remaining call is made by an activation with
\* remaining > 0 and is passed remaining - 1; the chain starts at max_depth and
\* no remaining depth is below 0.
C2_RemainingDecreasesByOne ==
    /\ \A i \in 1..Len(stack) : stack[i].remaining >= 0
    /\ Len(stack) > 0 => stack[1].remaining = max_depth
    /\ \A i \in 1..(Len(stack) - 1) :
          /\ stack[i].stage \in {"reflecting", "refracting"}
          /\ stack[i].remaining > 0
          /\ stack[i + 1].remaining = stack[i].remaining - 1

\* A chain of nested calls, reflections and a refraction among them, that has
\* come down from the default max_depth to 0.
C2_Witness ==
    /\ max_depth = DefaultMaxDepth
    /\ Len(stack) = DefaultMaxDepth + 1
    /\ Top.remaining = 0
    /\ \E i \in 1..Len(stack) : stack[i].stage = "reflecting"
    /\ \E i \in 1..Len(stack) : stack[i].stage = "refracting"

\* The place, counted from 1, that xs[j] takes when xs is sorted by ascending t
\* with equal t kept in their order.
RankByT(xs, j) ==
    1 + Cardinality({i \in 1..Len(xs) : xs[i].t < xs[j].t \/ (xs[i].t = xs[j].t /\ i < j)})

AscendingByT(xs) ==
    [k \in 1..Len(xs) |-> xs[CHOOSE j \in 1..Len(xs) : RankByT(xs, j) = k]]

\* The objects that own an odd number of the first k intersections of sorted.
EnteredAfter(sorted, k) ==
    {o \in {sorted[j].object_id : j \in 1..k} :
        Cardinality({j \in 1..k : sorted[j].object_id = o}) % 2 = 1}

LastOwnedBy(sorted, k, o) ==
    CHOOSE j \in 1..k : sorted[j].object_id = o /\ \A l \in (j + 1)..k : sorted[l].object_id # o

\* The refractive index of the entered object that was entered last, 1.0 when
\* no object is entered.
MediumAfter(sorted, k) ==
    LET entered == EnteredAfter(sorted, k)
    IN IF entered = {} THEN One
       ELSE LET top == CHOOSE o \in entered :
                           \A p \in entered : LastOwnedBy(sorted, k, p) <= LastOwnedBy(sorted, k, o)
            IN materials[top + 1].refractive_index

FirstPlaceOf(sorted, target) ==
    CHOOSE k \in 1..Len(sorted) : sorted[k] = target /\ \A j \in 1..(k - 1) : sorted[j] # target

\* C3: for an activation that computed them with refractive_indexes, n1 is the
\* index of the medium entered last before the target's toggle over all
\* intersections of the ray sorted by t (negative t included) and n2 the index
\* of the medium entered last after it, 1.0 when no object is entered.
C3_RefractiveIndexesToggle ==
    \A i \in 1..Len(stack) :
        (/\ stack[i].stage \in {"refracting", "combine"}
         /\ MaterialOf(stack[i]).transparency > 0)
        => LET sorted == AscendingByT(intersections(stack[i].world_ray))
               k == FirstPlaceOf(sorted, stack[i].intersection[1])
           IN /\ stack[i].n1 = MediumAfter(sorted, k - 1)
              /\ stack[i].n2 = MediumAfter(sorted, k)

\* The target lies inside two overlapping transparent objects whose
\* intersections are not in insertion order, one of them behind the ray origin.
C3_Witness ==
    /\ Len(stack) > 0
    /\ Top.stage = "combine"
    /\ MaterialOf(Top).transparency > 0
    /\ Top.n1 # One
    /\ Top.n2 # One
    /\ Top.n1 # Top.n2
    /\ LET xs == intersections(Top.world_ray)
       IN /\ Len(xs) = 4
          /\ xs # AscendingByT(xs)
          /\ \E j \in 1..4 : xs[j].t < 0

\* What hit selection owes for the intersections xs.
HitSelected(xs, found) ==
    /\ (found = None) <=> (\A k \in 1..Len(xs) : xs[k].t < 0)
    /\ found # None =>
          /\ found[1].t >= 0
          /\ \E k \in 1..Len(xs) : xs[k] = found[1]
          /\ \A k \in 1..Len(xs) : xs[k].t >= 0 => found[1].t <= xs[k].t

\* C4: nearest_intersection and hit return None when no intersection has
\* t >= 0 and otherwise an intersection with the least t >= 0, never one with
\* negative t.
C4_HitIsLeastNonNegative ==
    probe # None =>
        /\ HitSelected(probe[1].xs, probe[1].found)
        /\ HitSelected(probe[1].xs, hit(probe[1].xs))

\* A search among intersections behind the origin and several in front of it.
C4_Witness ==
    /\ probe # None
    /\ probe[1].found # None
    /\ \E k \in 1..Len(probe[1].xs) : probe[1].xs[k].t < 0
    /\ Cardinality({k \in 1..Len(probe[1].xs) : probe[1].xs[k].t >= 0}) >= 2
    /\ probe[1].xs[1] # probe[1].found[1]

\* C5: an activation entered with remaining = 0 returns black at once: no
\* intersection search, no shadow test, no reflection or refraction ray.
C5_DepthZeroReturnsBlack ==
    [][(pc = "running" /\ Top.stage = "enter" /\ Top.remaining = 0)
        => /\ ret' = Some([color |-> BLACK, remaining |-> 0])
           /\ Len(stack') = Len(stack) - 1
           /\ count' = count
           /\ probe' = probe]_vars

\* color_at_remaining(ray, 0) has returned black although the ray hits an object.
C5_Witness ==
    /\ pc = "done"
    /\ max_depth = 0
    /\ ret = Some([color |-> BLACK, remaining |-> 0])
    /\ count.searches = 0
    /\ Len(lights) > 0
    /\ nearest_intersection(primary[1]) # None
    /\ nearest_intersection(primary[1]) # None

\* The hit of the primary ray, as an activation up to its surface colour.
PrimaryHit == Shaded(NewFrame(primary[1], max_depth), nearest_intersection(primary[1])[1], rng)

Sin2TAt(frame) ==
    LET ratio == FDiv(frame.n1, frame.n2)
        cos_i == dot(frame.eye_vector, frame.world_normal)
    IN FMul(FMul(ratio, ratio), One - FMul(cos_i, cos_i))

\* C7: at a hit with transparency > 0 and sin2_t > 1 no refraction ray is cast
\* and the refracted colour is black; if reflective > 0 the reflection ray was
\* cast, the Schlick reflectance is exactly 1.0 and the colour returned is
\* surface + reflected.
C7_TotalInternalReflection ==
    \A i \in 1..Len(stack) :
        (/\ stack[i].stage = "combine"
         /\ MaterialOf(stack[i]).transparency > 0
         /\ Sin2TAt(stack[i]) > One)
        => /\ ~stack[i].cast_refract
           /\ stack[i].refract_color = BLACK
           /\ MaterialOf(stack[i]).reflective > 0 =>
                 /\ stack[i].cast_reflect
                 /\ schlick(stack[i].eye_vector, stack[i].world_normal, stack[i].n1, stack[i].n2) = One
                 /\ Combined(stack[i], MaterialOf(stack[i]))
                        = CAdd(stack[i].surface_color, stack[i].reflect_color)

\* Total internal reflection at a reflective and transparent surface whose
\* reflection came back with light.
C7_Witness ==
    /\ Len(stack) > 0
    /\ Top.stage = "combine"
    /\ MaterialOf(Top).transparency > 0
    /\ MaterialOf(Top).reflective > 0
    /\ Sin2TAt(Top) > One
    /\ Top.reflect_color # BLACK
    /\ Top.surface_color # BLACK

\* The combination C8 states for an activation about to return.
Blend(frame) ==
    LET material == MaterialOf(frame)
        reflectance == schlick(frame.eye_vector, frame.world_normal, frame.n1, frame.n2)
    IN IF material.reflective > 0 /\ material.transparency > 0
       THEN Color(frame.surface_color.r + FMul(frame.reflect_color.r, reflectance)
                      + FMul(frame.refract_color.r, One - reflectance),
                  frame.surface_color.g + FMul(frame.reflect_color.g, reflectance)
                      + FMul(frame.refract_color.g, One - reflectance),
                  frame.surface_color.b + FMul(frame.reflect_color.b, reflectance)
                      + FMul(frame.refract_color.b, One - reflectance))
       ELSE Color(frame.surface_color.r + frame.reflect_color.r + frame.refract_color.r,
                  frame.surface_color.g + frame.reflect_color.g + frame.refract_color.g,
                  frame.surface_color.b + frame.reflect_color.b + frame.refract_color.b)

\* C8: the colour returned at a hit is surface + reflected * reflectance +
\* refracted * (1 - reflectance) exactly when the material is both reflective
\* and transparent, and surface + reflected + refracted otherwise; reflected is
\* black when reflective = 0 and refracted is black when transparency = 0.
C8_Combine ==
    /\ [](\A i \in 1..Len(stack) :
            stack[i].stage = "combine" =>
                /\ MaterialOf(stack[i]).reflective = 0 => stack[i].reflect_color = BLACK
                /\ MaterialOf(stack[i]).transparency = 0 => stack[i].refract_color = BLACK)
    /\ [][(pc = "running" /\ Top.stage = "combine")
           => ret' = Some([color |-> Blend(Top), remaining |-> Top.remaining])]_vars

\* A return from a hit on a reflective and transparent material whose three
\* terms are all lit, and the Schlick reflectance strictly between 0 and 1.
C8_Witness ==
    /\ Len(stack) > 0
    /\ Top.stage = "combine"
    /\ MaterialOf(Top).reflective > 0
    /\ MaterialOf(Top).transparency > 0
    /\ Top.surface_color # BLACK
    /\ Top.reflect_color # BLACK
    /\ Top.refract_color # BLACK
    /\ schlick(Top.eye_vector, Top.world_normal, Top.n1, Top.n2) \in 1..(One - 1)

InUnitRange(c) == c.r \in 0..One /\ c.g \in 0..One /\ c.b \in 0..One

\* C9: every channel of the colour color_at returns lies in [0,1]: it is the
\* clamp of what the outermost color_at_remaining returned, and a nested call's
\* colour reaches its caller unclamped, scaled by reflective or transparency.
C9_ClampOnlyAtTopLevel ==
    /\ [](result # None => (InUnitRange(result[1]) /\ result[1] = clamp(ret[1].color)))
    /\ [][(pc = "running" /\ Len(stack) >= 2 /\ Len(stack') = Len(stack) - 1)
           => LET value == IF Top.stage = "combine" THEN Blend(Top) ELSE BLACK
                  caller == stack[Len(stack) - 1]
                  resumed == stack'[Len(stack')]
              IN /\ ret' = Some([color |-> value, remaining |-> Top.remaining])
                 /\ caller.stage = "reflecting" =>
                       resumed.reflect_color = CScale(value, MaterialOf(caller).reflective)
                 /\ caller.stage = "refracting" =>
                       resumed.refract_color = CScale(value, MaterialOf(caller).transparency)]_vars

\* color_at returned 1.0 in a channel for which the outermost call returned
\* more than 5.0: nested colours above 1.0 were summed unclamped.
C9_Witness ==
    /\ pc = "done"
    /\ ret[1].color.r > 5 * One
    /\ result[1].r = One
    /\ count.reflections >= 2

\* The sum of the lighting of every light of the scene at the hit of an
\* activation, each light with its own shadow test.
RECURSIVE LightsSum(_, _)
LightsSum(frame, k) ==
    IF k > Len(lights) THEN BLACK
    ELSE LET id == frame.intersection[1].object_id
             one == lighting(materials[id + 1], rng, transforms[id + 1], lights[k], frame.world_point,
                             frame.eye_vector, frame.world_normal,
                             is_shadowed(frame.over_point, lights[k]))
         IN CAdd(one, LightsSum(frame, k + 1))

\* C10: the surface colour computed at a hit is the sum of the lighting of
\* every light of the scene, each light with its own shadow test.
C10_SurfaceSumsAllLights ==
    \A i \in 1..Len(stack) :
        stack[i].intersection # None => stack[i].surface_color = LightsSum(stack[i], 1)

\* Some object intersects the ray from point toward the light strictly before
\* the light and not behind the point.
Occluded(point, light) ==
    LET v == TSub(light.position, point)
        xs == intersections(ray(point, normalize(v)))
    IN \E k \in 1..Len(xs) : xs[k].t >= 0 /\ xs[k].t < magnitude(v)

\* C11: is_shadowed(point, light) is true exactly when some object intersects
\* the ray from point toward the light at a t with 0 <= t < distance; checked
\* at the over_point of the hit of every activation, for every light of the scene.
C11_ShadowedIffOccluded ==
    (Len(stack) > 0 /\ Top.stage = "reflect") =>
        \A k \in 1..Len(lights) :
            is_shadowed(Top.over_point, lights[k]) <=> Occluded(Top.over_point, lights[k])

\* The shadow test of a hit found the point shadowed by an object between it
\* and the first light, with another intersection behind the point; and for some
\* light the point is lit although the ray toward it intersects an object behind
\* the point or at or beyond the light.
C11_Witness ==
    \E i \in 1..Len(stack) :
        /\ stack[i].intersection # None
        /\ is_shadowed(stack[i].over_point, lights[1])
        /\ LET v == TSub(lights[1].position, stack[i].over_point)
               xs == intersections(ray(stack[i].over_point, normalize(v)))
           IN \E k \in 1..Len(xs) : xs[k].t < 0 \/ xs[k].t >= magnitude(v)
        /\ \E j \in 1..Len(stack) : \E l \in 1..Len(lights) :
              /\ stack[j].intersection # None
              /\ ~is_shadowed(stack[j].over_point, lights[l])
              /\ LET v == TSub(lights[l].position, stack[j].over_point)
                     xs == intersections(ray(stack[j].over_point, normalize(v)))
                 IN /\ \E k \in 1..Len(xs) : xs[k].t < 0
                    /\ \E k \in 1..Len(xs) : xs[k].t >= magnitude(v)

\* No object yields an intersection with t >= 0 for the ray.
Misses(world_ray) ==
    \A k \in 1..Len(intersections(world_ray)) : intersections(world_ray)[k].t < 0

\* C12: a ray for which no object yields an intersection with t >= 0 gets
\* black, with no abort and no shadow, reflection or refraction ray cast; for the
\* primary ray color_at returns black.
C12_MissReturnsBlack ==
    [][(pc = "running" /\ Top.stage = "enter" /\ Misses(Top.world_ray))
        => /\ ret' = Some([color |-> BLACK, remaining |-> Top.remaining])
           /\ Len(stack') = Len(stack) - 1
           /\ count'.shadows = count.shadows
           /\ count'.reflections = count.reflections
           /\ count'.refractions = count.refractions
           /\ count'.calls = count.calls
           /\ Len(stack) = 1 => (pc' = "done" /\ result' = Some(BLACK))]_vars

\* color_at returned black, after one search, on a scene with no light whose
\* objects all lie behind the ray.
C12_Witness ==
    /\ pc = "done"
    /\ result = Some(BLACK)
    /\ max_depth > 0
    /\ count.searches = 1
    /\ Len(lights) = 0
    /\ Len(intersections(primary[1])) >= 2
    /\ Misses(primary[1])

\* The t values among xs that carry object_id, in the order of xs.
TsOf(xs, object_id) ==
    LET own == SelectSeq(xs, LAMBDA i : i.object_id = object_id)
    IN [k \in 1..Len(own) |-> own[k].t]

\* What Scene::intersections owes for the ray.
EveryObjectIntersected(world_ray) ==
    LET xs == intersections(world_ray)
    IN /\ \A k \in 1..Len(xs) : xs[k].object_id \in 0..(Len(geometrys) - 1)
       /\ \A j \in 1..Len(xs) : \A k \in j..Len(xs) : xs[j].object_id <= xs[k].object_id
       /\ \A o \in 0..(Len(geometrys) - 1) :
             TsOf(xs, o) = IterValues(intersect(geometrys[o + 1],
                                                RayTransform(world_ray, transforms[o + 1].world_to_local)))

\* C13: intersections(ray) holds for every object, in insertion order, exactly
\* the t values of its geometry for the ray in the object's local space, tagged
\* with the object's id, negative t kept; checked for the ray of every activation.
C13_IntersectionsOfEveryObject ==
    (Len(stack) > 0 /\ Top.stage = "enter") => EveryObjectIntersected(Top.world_ray)

\* A ray that misses the first object and intersects the second twice, once
\* behind its origin.
C13_Witness ==
    /\ Len(stack) > 0
    /\ Top.stage = "enter"
    /\ Len(geometrys) = 2
    /\ LET xs == intersections(Top.world_ray)
       IN /\ Len(xs) = 2
          /\ xs[1].object_id = 1
          /\ xs[1].t < 0
          /\ xs[2].t > 0
    /\ Len(IterValues(intersect(geometrys[2],
                                RayTransform(Top.world_ray, transforms[2].world_to_local)))) = 2

\* C17: an activation casts a reflection ray only at a reflective hit and a
\* refraction ray only at a transparent hit without total internal reflection,
\* each at most once, so a color_at call makes 1 + reflections + refractions
\* invocations of color_at_remaining and never more than 2^(max_depth+1) - 1.
C17_InvocationsBounded ==
    /\ [](/\ count.calls <= 2 ^ (max_depth + 1) - 1
          /\ pc \in {"running", "done"} => count.calls = 1 + count.reflections + count.refractions
          /\ \A i \in 1..Len(stack) :
                /\ stack[i].cast_reflect => MaterialOf(stack[i]).reflective > 0
                /\ stack[i].cast_refract =>
                      /\ MaterialOf(stack[i]).transparency > 0
                      /\ stack[i].stage # "refract" => Sin2TAt(stack[i]) <= One)
    /\ [][(pc = "running" /\ Len(stack') = Len(stack) + 1)
           => /\ count'.calls = count.calls + 1
              /\ Top.stage = "reflect" =>
                    (~Top.cast_reflect /\ ~Top.cast_refract /\ stack'[Len(stack)].stage = "reflecting")
              /\ Top.stage # "reflect" =>
                    (Top.stage = "refract" /\ ~Top.cast_refract /\ stack'[Len(stack)].stage = "refracting")]_vars

\* A color_at call with max_depth = 5 that has made more than 20 invocations,
\* reflections and refractions among them, from hits that cast both rays.
C17_Witness ==
    /\ pc = "done"
    /\ max_depth = DefaultMaxDepth
    /\ count.calls > 20
    /\ count.reflections > 5
    /\ count.refractions > 5

\* C14: after any add_object and add_light calls the k-th add_object call
\* (from 0) returned id k, every id still denotes the transform, material
\* and geometry it was added with, the three vectors have the length of the
\* number of add_object calls, add_light changes only lights, and the debug
\* assertion of add_object never fails.
C14_ObjectIdsAreStable ==
    /\ [](/\ Len(transforms) = Len(issued)
          /\ Len(materials) = Len(issued)
          /\ Len(geometrys) = Len(issued)
          /\ \A k \in 1..Len(issued) :
                /\ issued[k].object_id = k - 1
                /\ transforms[issued[k].object_id + 1] = issued[k].object.transform
                /\ materials[issued[k].object_id + 1] = issued[k].object.material
                /\ geometrys[issued[k].object_id + 1] = issued[k].object.geometry
          /\ \A j, k \in 1..Len(issued) : j # k => issued[j].object_id # issued[k].object_id)
    /\ [][/\ lights' # lights =>
                /\ \E light \in LightChoices : lights' = Append(lights, light)
                /\ transforms' = transforms
                /\ materials' = materials
                /\ geometrys' = geometrys
                /\ max_depth' = max_depth
                /\ issued' = issued
          /\ issued' # issued =>
                /\ pc' # "panic"
                /\ lights' = lights
                /\ SubSeq(issued', 1, Len(issued)) = issued]_vars

\* Two different objects and two lights were added and a ray was traced.
C14_Witness ==
    /\ Len(issued) = 2
    /\ issued[1].object # issued[2].object
    /\ Len(lights) = 2
    /\ pc = "done"
    /\ result # None

\* ------------------------------------------- direct calls on a prepared scene

\* A glass sphere of tests::finding_n1_and_n2_at_various_intersections.
Glass(transform, refractive_index) ==
    Object(Geometry_sphere, transform,
           [NewMaterial EXCEPT !.transparency = One, !.refractive_index = refractive_index])

GlassA == Glass(Scale(2 * One), 1500)

GlassB == Glass(Translate(0, 0, -250), 2 * One)

GlassC == Glass(Translate(0, 0, 250), 2500)

\* The orders in which the three spheres are added.
GlassOrders ==
    {<<GlassA, GlassB, GlassC>>, <<GlassA, GlassC, GlassB>>, <<GlassB, GlassA, GlassC>>,
     <<GlassB, GlassC, GlassA>>, <<GlassC, GlassA, GlassB>>, <<GlassC, GlassB, GlassA>>}

\* The ray of the test, through all three spheres.
GlassRay == ray(point3(0, 0, -4 * One), vector3(0, 0, One))

UnitRays ==
    {GlassRay,
     ray(point3(0, 0, 4 * One), vector3(0, 0, -One)),
     ray(point3(0, 0, 0), vector3(0, 0, One)),
     ray(point3(0, 1500, -4 * One), vector3(0, 0, One))}

\* Pairs of eye vector and normal: straight on, at 45 degrees, at 60 degrees.
UnitViews ==
    {<<vector3(0, 0, -One), vector3(0, 0, -One)>>,
     <<vector3(0, 707, -707), vector3(0, 0, -One)>>,
     <<vector3(0, 866, -500), vector3(0, 0, -One)>>}

UnitIndexes == {One, 1500, 2 * One, 2500}

\* Scene::new() followed by three add_object calls.
UnitInit ==
    /\ \E order \in GlassOrders :
          /\ transforms = [k \in 1..3 |-> order[k].transform]
          /\ materials = [k \in 1..3 |-> order[k].material]
          /\ geometrys = [k \in 1..3 |-> order[k].geometry]
          /\ issued = [k \in 1..3 |-> [object_id |-> k - 1, object |-> order[k]]]
    /\ lights = <<>>
    /\ max_depth = DefaultMaxDepth
    /\ pc = "idle"
    /\ stack = <<>>
    /\ primary = None
    /\ result = None
    /\ ret = None
    /\ probe = None
    /\ count = NoCount
    /\ build = "debug"
    /\ builder = None
    /\ camera = None
    /\ image = None
    /\ loop = None
    /\ workers = <<>>
    /\ rng = 0

\* scene.refractive_indexes(r, intersection) for the index-th intersection of
\* the ray in ascending t, as the tests call it.
call_refractive_indexes(world_ray, index) ==
    /\ pc = "idle"
    /\ index <= Len(intersections(world_ray))
    /\ LET intersection == SortByT(intersections(world_ray))[index]
       IN probe' = Some([call |-> "refractive_indexes", world_ray |-> world_ray, index |-> index,
                         intersection |-> intersection,
                         value |-> refractive_indexes(world_ray, intersection)])
    /\ UNCHANGED <<lights, transforms, materials, geometrys, max_depth, pc, stack, primary, result, ret,
                   count, issued, rng, outside>>

\* schlick(eyev, normalv, n1, n2)
call_schlick(eyev, normalv, n1, n2) ==
    /\ pc = "idle"
    /\ probe' = Some([call |-> "schlick", eyev |-> eyev, normalv |-> normalv, n1 |-> n1, n2 |-> n2,
                      value |-> schlick(eyev, normalv, n1, n2)])
    /\ UNCHANGED <<lights, transforms, materials, geometrys, max_depth, pc, stack, primary, result, ret,
                   count, issued, rng, outside>>

UnitNext ==
    \/ \E world_ray \in UnitRays : \E index \in 1..6 : call_refractive_indexes(world_ray, index)
    \/ \E view \in UnitViews : \E n1, n2 \in UnitIndexes : call_schlick(view[1], view[2], n1, n2)

UnitSpec == UnitInit /\ [][UnitNext]_vars

\* The (n1, n2) pairs the spec documents for the six intersections.
DocumentedIndexes ==
    <<<<One, 1500>>, <<1500, 2 * One>>, <<2 * One, 2500>>, <<2500, 2500>>, <<2500, 1500>>, <<1500, One>>>>

\* C18: for the spheres A (1.5, scaled by 2), B (2.0, z = -0.25) and C (2.5,
\* z = +0.25) and the ray through all of them, the sorted intersections
\* belong to A, B, C, B, C, A and refractive_indexes gives for the six of them
\* (1.0,1.5), (1.5,2.0), (2.0,2.5), (2.5,2.5), (2.5,1.5), (1.5,1.0).
C18_ThreeGlassSpheres ==
    (/\ probe # None
     /\ probe[1].call = "refractive_indexes"
     /\ probe[1].world_ray = GlassRay)
    => /\ Len(intersections(GlassRay)) = 6
       /\ [k \in 1..6 |-> materials[SortByT(intersections(GlassRay))[k].object_id + 1].refractive_index]
             = <<1500, 2 * One, 2500, 2 * One, 2500, 1500>>
       /\ probe[1].value = DocumentedIndexes[probe[1].index]

\* The fourth intersection, where the ray leaves B inside C: (2.5, 2.5), on a
\* scene to which the spheres were not added in the order the ray meets them.
C18_Witness ==
    /\ probe # None
    /\ probe[1].call = "refractive_indexes"
    /\ probe[1].world_ray = GlassRay
    /\ probe[1].index = 4
    /\ probe[1].value = <<2500, 2500>>
    /\ materials[1].refractive_index = 2500

\* C19 as the spec states it: schlick for n1 = n2 = 1.5 and a straight-on view
\* (cos = 1) equals exactly 0.04.
C19_SchlickEqualIndexes ==
    (/\ probe # None
     /\ probe[1].call = "schlick"
     /\ probe[1].n1 = 1500
     /\ probe[1].n2 = 1500
     /\ dot(probe[1].eyev, probe[1].normalv) = One)
    => probe[1].value = 40

\* C19 amended: schlick for n1 = 1.5, n2 = 1.0 (a ray leaving glass) and a
\* straight-on view equals 0.04, which is r0; for n1 = n2 it is r0 = 0.
C19_SchlickLeavingGlass ==
    (/\ probe # None
     /\ probe[1].call = "schlick"
     /\ dot(probe[1].eyev, probe[1].normalv) = One)
    => /\ (probe[1].n1 = 1500 /\ probe[1].n2 = One) => probe[1].value = 40
       /\ probe[1].n1 = probe[1].n2 => probe[1].value = 0

\* schlick was called straight on for a ray leaving glass.
C19_Witness ==
    /\ probe # None
    /\ probe[1].call = "schlick"
    /\ probe[1].n1 = 1500
    /\ probe[1].n2 = One
    /\ dot(probe[1].eyev, probe[1].normalv) = One
    /\ probe[1].value = 40

\* ------------------------------------------------- building a Transform

\* At most this many translate and scale calls are chained on a Transform.
MaxBuilderCalls == 2

\* The arguments of Transform::translate.
TranslateChoices == {<<0, One, 0>>}

\* The arguments of Transform::scale, one of them with a zero factor.
ScaleChoices == {<<2 * One, 2 * One, 2 * One>>, <<One, 0, One>>}

\* Scene::new(), in a debug or a release build.
BuildInit ==
    /\ lights = <<>>
    /\ transforms = <<>>
    /\ materials = <<>>
    /\ geometrys = <<>>
    /\ max_depth = DefaultMaxDepth
    /\ pc = "idle"
    /\ stack = <<>>
    /\ primary = None
    /\ result = None
    /\ ret = None
    /\ probe = None
    /\ count = NoCount
    /\ issued = <<>>
    /\ build \in {"debug", "release"}
    /\ builder = None
    /\ camera = None
    /\ image = None
    /\ loop = None
    /\ workers = <<>>
    /\ rng = 0

\* Transform::new()
transform_new ==
    /\ pc = "idle"
    /\ builder' = Some([transform |-> NewTransform, calls |-> 0])
    /\ UNCHANGED <<lights, transforms, materials, geometrys, max_depth, pc, stack, primary, result, ret,
                   probe, count, issued, build, camera, image, loop, workers, rng>>

\* self.local_to_world = self.local_to_world * matrix;
\* self.world_to_local = self.local_to_world.inverse(), whose debug_assert!
\* aborts a debug build when the product is not invertible.
Compose(matrix) ==
    /\ pc = "idle"
    /\ builder # None
    /\ builder[1].calls < MaxBuilderCalls
    /\ LET local_to_world == MatMul(builder[1].transform.local_to_world, matrix)
       IN IF build = "debug" /\ ~is_invertible(local_to_world)
          THEN /\ pc' = "panic"
               /\ builder' = Some([builder[1] EXCEPT !.transform.local_to_world = local_to_world])
          ELSE /\ pc' = pc
               /\ builder' = Some([transform |-> [local_to_world |-> local_to_world,
                                                 world_to_local |-> inverse(local_to_world)],
                                   calls |-> builder[1].calls + 1])
    /\ UNCHANGED <<lights, transforms, materials, geometrys, max_depth, stack, primary, result, ret,
                   probe, count, issued, build, camera, image, loop, workers, rng>>

\* Transform::translate
transform_translate(x, y, z) ==
    Compose(matrix4(<<One, 0, 0, x>>, <<0, One, 0, y>>, <<0, 0, One, z>>, <<0, 0, 0, One>>))

\* Transform::scale
transform_scale(x, y, z) ==
    Compose(matrix4(<<x, 0, 0, 0>>, <<0, y, 0, 0>>, <<0, 0, z, 0>>, <<0, 0, 0, One>>))

\* Scene::add_object of an object with the Transform built.
add_built(geometry) ==
    /\ builder # None
    /\ add_object(Object(geometry, builder[1].transform, NewMaterial))

BuildNext ==
    \/ transform_new
    \/ \E by \in TranslateChoices : transform_translate(by[1], by[2], by[3])
    \/ \E by \in ScaleChoices : transform_scale(by[1], by[2], by[3])
    \/ \E geometry \in {Geometry_sphere, Geometry_plane} : add_built(geometry)

BuildSpec == BuildInit /\ [][BuildNext]_vars

\* C20: a Transform whose matrix has determinant 0 is rejected when it is
\* constructed, in every build: no Transform under construction and no object of
\* the scene has a local_to_world matrix with determinant 0, unless the
\* construction was aborted.
C20_NonInvertibleRejected ==
    /\ (builder # None /\ pc # "panic") => determinant(builder[1].transform.local_to_world) # 0
    /\ \A k \in 1..Len(transforms) : determinant(transforms[k].local_to_world) # 0

\* ------------------------------------------------------- Camera and Canvas

\* A canvas has at most this many pixels in a row and in a column.
MaxSize == 2

\* (fov / 2.).tan() of the cameras of the model, whose fov is PI / 2.
HalfView == One

\* Camera::new(hsize, vsize, PI / 2.)
NewCamera(hsize, vsize) ==
    LET half_view == HalfView
        aspect == FDiv(hsize * One, vsize * One)
        half_width == IF aspect >= One THEN half_view ELSE FMul(half_view, aspect)
        half_height == IF aspect >= One THEN FDiv(half_view, aspect) ELSE half_view
    IN [hsize |-> hsize, vsize |-> vsize, transform |-> NewTransform,
        half_width |-> half_width, half_height |-> half_height,
        pixel_size |-> FDiv(FMul(half_width, 2 * One), hsize * One)]

\* Camera::ray
camera_ray(c, x, y) ==
    LET xoffset == FMul(x * One + 500, c.pixel_size)
        yoffset == FMul(y * One + 500, c.pixel_size)
        world_x == c.half_width - xoffset
        world_y == c.half_height - yoffset
        pixel == MatMulTuple(c.transform.world_to_local, point3(world_x, world_y, -One))
        origin == MatMulTuple(c.transform.world_to_local, point3(0, 0, 0))
        direction == normalize(TSub(pixel, origin))
    IN ray(origin, direction)

\* Canvas::new, with the record of the set_color calls made on it.
NewCanvas(width, height) ==
    [width |-> width, height |-> height, data |-> [i \in 1..(3 * width * height) |-> 0],
     written |-> <<>>]

\* A conversion that drops the fraction instead of rounding.
Channel_Truncating(c) == (Max(Min(c, One), 0) * 255) \div One

\* (c.max(0.0).min(1.0) * 255.0).round() as u8
Channel(c) == (Max(Min(c, One), 0) * 255 + 500) \div One

\* An index that takes the height of the canvas for the length of a row.
PixelIndex_ByHeight(canvas, x, y) == 3 * (canvas.height * y + x)

\* let i = 3 * (self.width * y + x)
PixelIndex(canvas, x, y) == 3 * (canvas.width * y + x)

\* Whether the three writes of set_color are inside self.data.
InBounds(canvas, x, y) == PixelIndex(canvas, x, y) + 2 < Len(canvas.data)

\* Canvas::set_color, data being indexed from 1 here.
set_color(canvas, x, y, color) ==
    LET i == PixelIndex(canvas, x, y)
    IN [canvas EXCEPT !.data = [@ EXCEPT ![i + 1] = Channel(color.r),
                                         ![i + 2] = Channel(color.g),
                                         ![i + 3] = Channel(color.b)]]

\* Canvas::get_color, data being indexed from 1 here.
get_color(canvas, x, y) ==
    LET i == PixelIndex(canvas, x, y)
    IN Color((canvas.data[i + 1] * One) \div 255,
             (canvas.data[i + 2] * One) \div 255,
             (canvas.data[i + 3] * One) \div 255)

\* A light behind the camera.
RenderLight == Light(point3(-10 * One, 10 * One, 10 * One), WHITE)

\* A sphere in front of the camera.
Ball(material) == Object(Geometry_sphere, Translate(0, 0, -1500), material)

\* The scenes rendered: their lights and their objects.
RenderScenes ==
    {[lights |-> <<RenderLight>>, objects |-> <<>>],
     [lights |-> <<RenderLight>>, objects |-> <<Ball([NewMaterial EXCEPT !.texture = "WhiteNoise"])>>],
     [lights |-> <<RenderLight>>,
      objects |-> <<Ball([NewMaterial EXCEPT !.reflective = 500, !.transparency = One,
                                             !.refractive_index = 1500]),
                    Mirror(-One)>>],
     [lights |-> <<>>, objects |-> <<Matte>>]}

\* A scene built and a camera constructed.
RenderInit ==
    /\ \E scene \in RenderScenes :
           /\ lights = scene.lights
           /\ transforms = [k \in 1..Len(scene.objects) |-> scene.objects[k].transform]
           /\ materials = [k \in 1..Len(scene.objects) |-> scene.objects[k].material]
           /\ geometrys = [k \in 1..Len(scene.objects) |-> scene.objects[k].geometry]
           /\ issued = [k \in 1..Len(scene.objects) |->
                           [object_id |-> k - 1, object |-> scene.objects[k]]]
    /\ max_depth \in {1, DefaultMaxDepth}
    /\ pc = "idle"
    /\ stack = <<>>
    /\ primary = None
    /\ result = None
    /\ ret = None
    /\ probe = None
    /\ count = NoCount
    /\ build = "debug"
    /\ builder = None
    /\ \E hsize \in 1..MaxSize, vsize \in 1..MaxSize : camera = Some(NewCamera(hsize, vsize))
    /\ image = None
    /\ loop = None
    /\ workers = <<>>
    /\ rng = 0

\* Camera::render up to its loops: let mut image = Canvas::new(self.hsize, self.vsize).
render ==
    /\ pc = "idle"
    /\ loop = None
    /\ image' = Some(NewCanvas(camera[1].hsize, camera[1].vsize))
    /\ loop' = Some([x |-> 0, y |-> 0, returned |-> FALSE])
    /\ UNCHANGED <<lights, transforms, materials, geometrys, max_depth, pc, stack, primary, result, ret,
                   probe, count, issued, build, builder, camera, workers, rng>>

\* let ray = self.ray(x, y); scene.color_at(ray), up to the call.
render_color_at ==
    /\ loop # None
    /\ pc = "idle"
    /\ loop[1].y < image[1].height
    /\ color_at(camera_ray(camera[1], loop[1].x, loop[1].y))

\* image.set_color(x, y, color), on the return of color_at, and the step of the
\* loops: the next x, or the next y once the row is done.
render_set_color ==
    /\ loop # None
    /\ pc = "done"
    /\ LET x == loop[1].x
           y == loop[1].y
       IN IF InBounds(image[1], x, y)
          THEN /\ image' = Some([set_color(image[1], x, y, result[1]) EXCEPT !.written =
                                    Append(@, [x |-> x, y |-> y, i |-> PixelIndex(image[1], x, y),
                                               ray |-> primary[1], color |-> result[1]])])
               /\ loop' = Some(IF x + 1 < image[1].width
                               THEN [loop[1] EXCEPT !.x = x + 1]
                               ELSE [loop[1] EXCEPT !.x = 0, !.y = y + 1])
               /\ pc' = "idle"
          ELSE \* self.data[i + 0]: index out of bounds
               /\ pc' = "panic"
               /\ UNCHANGED <<image, loop>>
    /\ UNCHANGED <<lights, transforms, materials, geometrys, max_depth, stack, primary, result, ret,
                   probe, count, issued, build, builder, camera, workers, rng>>

\* Camera::render returns image.
render_return ==
    /\ loop # None
    /\ pc = "idle"
    /\ loop[1].y = image[1].height
    /\ ~loop[1].returned
    /\ loop' = Some([loop[1] EXCEPT !.returned = TRUE])
    /\ UNCHANGED <<lights, transforms, materials, geometrys, max_depth, pc, stack, primary, result, ret,
                   probe, count, issued, build, builder, camera, image, workers, rng>>

RenderNext ==
    \/ render
    \/ render_color_at
    \/ Enter
    \/ Reflect
    \/ Refract
    \/ Combine
    \/ render_set_color
    \/ render_return

RenderSpec == RenderInit /\ [][RenderNext]_vars

\* The set_color calls that wrote the pixel (x, y).
WritesOf(written, x, y) == {k \in 1..Len(written) : written[k].x = x /\ written[k].y = y}

\* The three bytes of the pixel (x, y) of a canvas.
BytesAt(canvas, x, y) ==
    LET i == 3 * (canvas.width * y + x)
    IN <<canvas.data[i + 1], canvas.data[i + 2], canvas.data[i + 3]>>

\* C15: Camera::render works on a canvas of width hsize and height vsize;
\* the colour color_at returns inside render is the colour of the ray
\* camera.ray(x, y) of the pixel (x, y) the loops are at; every set_color is
\* for a pixel of the canvas not written before, at an index inside the
\* buffer, with that colour; and when render returns, every pixel (x, y) of
\* the canvas has been written exactly once and holds its colour as three
\* bytes.
C15_RenderWritesEveryPixelOnce ==
    loop # None =>
        LET canvas == image[1]
            written == canvas.written
        IN /\ canvas.width = camera[1].hsize
           /\ canvas.height = camera[1].vsize
           /\ Len(canvas.data) = 3 * camera[1].hsize * camera[1].vsize
           /\ pc = "done" =>
                  /\ primary = Some(camera_ray(camera[1], loop[1].x, loop[1].y))
                  /\ InBounds(canvas, loop[1].x, loop[1].y)
           /\ \A k \in 1..Len(written) :
                  /\ written[k].x \in 0..(canvas.width - 1)
                  /\ written[k].y \in 0..(canvas.height - 1)
                  /\ written[k].i \in 0..(Len(canvas.data) - 3)
                  /\ WritesOf(written, written[k].x, written[k].y) = {k}
                  /\ written[k].ray = camera_ray(camera[1], written[k].x, written[k].y)
           /\ loop[1].returned =>
                  \A x \in 0..(camera[1].hsize - 1), y \in 0..(camera[1].vsize - 1) :
                      \E k \in 1..Len(written) :
                          /\ WritesOf(written, x, y) = {k}
                          /\ BytesAt(canvas, x, y) = <<Channel(written[k].color.r),
                                                       Channel(written[k].color.g),
                                                       Channel(written[k].color.b)>>

\* render returned a canvas higher than wide, with a pixel that is not black.
C15_Witness ==
    /\ loop # None
    /\ loop[1].returned
    /\ image[1].width < image[1].height
    /\ Len(image[1].written) = image[1].width * image[1].height
    /\ \E k \in 1..Len(image[1].written) : image[1].written[k].color # BLACK

\* ------------------------------------------------- rendering with workers

\* The number of workers the rows of the canvas are distributed over.
NumWorkers == 2

\* The ways to cut the rows 0..height-1 into NumWorkers ranges, in order;
\* a range may be empty.
Cuts(height) ==
    {cut \in [0..NumWorkers -> 0..height] :
        /\ cut[0] = 0
        /\ cut[NumWorkers] = height
        /\ \A w \in 1..NumWorkers : cut[w - 1] <= cut[w]}

\* A scene built, a camera constructed, the canvas allocated and the rows
\* handed to the workers; they share the scene, the canvas and the generator.
ParallelInit ==
    /\ \E scene \in {s \in RenderScenes : Len(s.lights) > 0} :
           /\ lights = scene.lights
           /\ transforms = [k \in 1..Len(scene.objects) |-> scene.objects[k].transform]
           /\ materials = [k \in 1..Len(scene.objects) |-> scene.objects[k].material]
           /\ geometrys = [k \in 1..Len(scene.objects) |-> scene.objects[k].geometry]
           /\ issued = [k \in 1..Len(scene.objects) |->
                           [object_id |-> k - 1, object |-> scene.objects[k]]]
    /\ max_depth = 1
    /\ pc = "idle"
    /\ stack = <<>>
    /\ primary = None
    /\ result = None
    /\ ret = None
    /\ probe = None
    /\ count = NoCount
    /\ build = "debug"
    /\ builder = None
    /\ loop = None
    /\ rng = 0
    /\ \E hsize \in 1..MaxSize, vsize \in 1..MaxSize :
           /\ camera = Some(NewCamera(hsize, vsize))
           /\ image = Some(NewCanvas(hsize, vsize))
           /\ \E cut \in Cuts(vsize) :
                  workers = [w \in 1..NumWorkers |->
                                [x |-> 0, y |-> cut[w - 1], end |-> cut[w], color |-> None]]

\* What scene.color_at returned to a worker: a panic, or the colour the
\* worker holds and the generator as the call left it.
worker_holds(w, returned) ==
    IF returned.panic
    THEN /\ pc' = "panic"
         /\ UNCHANGED <<workers, rng>>
    ELSE /\ workers' = [workers EXCEPT ![w].color = Some(returned.color)]
         /\ rng' = returned.rng
         /\ pc' = pc

\* A worker computes the colour of its next pixel: self.ray(x, y) and
\* scene.color_at(ray), with the generator the workers share.
worker_color_at(w) ==
    /\ pc = "idle"
    /\ workers[w].y < workers[w].end
    /\ workers[w].color = None
    /\ worker_holds(w, ColorAt(camera_ray(camera[1], workers[w].x, workers[w].y), rng))
    /\ UNCHANGED <<lights, transforms, materials, geometrys, max_depth, stack, primary, result, ret,
                   probe, count, issued, build, builder, camera, image, loop>>

\* A worker writes the colour it computed, image.set_color(x, y, color), and
\* steps to its next pixel.
worker_set_color(w) ==
    /\ pc = "idle"
    /\ workers[w].color # None
    /\ LET x == workers[w].x
           y == workers[w].y
       IN IF InBounds(image[1], x, y)
          THEN /\ image' = Some([set_color(image[1], x, y, workers[w].color[1]) EXCEPT !.written =
                                    Append(@, [x |-> x, y |-> y, i |-> PixelIndex(image[1], x, y),
                                               ray |-> camera_ray(camera[1], x, y),
                                               color |-> workers[w].color[1]])])
               /\ workers' = [workers EXCEPT ![w] =
                                 IF x + 1 < image[1].width
                                 THEN [@ EXCEPT !.x = x + 1, !.color = None]
                                 ELSE [@ EXCEPT !.x = 0, !.y = y + 1, !.color = None]]
               /\ pc' = pc
          ELSE /\ pc' = "panic"
               /\ UNCHANGED <<image, workers>>
    /\ UNCHANGED <<lights, transforms, materials, geometrys, max_depth, stack, primary, result, ret,
                   probe, count, issued, build, builder, camera, loop, rng>>

ParallelNext ==
    \E w \in 1..NumWorkers :
        \/ worker_color_at(w)
        \/ worker_set_color(w)

ParallelSpec == ParallelInit /\ [][ParallelNext]_vars

\* The canvas of the sequential loops of Camera::render from pixel number k
\* on, rows first, with the generator in state g.
RECURSIVE Rendered(_, _, _)

\* The canvas once pixel number k holds what color_at returned for it.
Written(canvas, k, returned) ==
    Rendered(set_color(canvas, k % canvas.width, k \div canvas.width, returned.color), k + 1,
             returned.rng)

Rendered(canvas, k, g) ==
    IF k = canvas.width * canvas.height THEN canvas
    ELSE Written(canvas, k, ColorAt(camera_ray(camera[1], k % canvas.width, k \div canvas.width), g))

\* Every worker has written all the pixels of its rows.
WorkersDone ==
    /\ workers # <<>>
    /\ pc = "idle"
    /\ \A w \in 1..NumWorkers : workers[w].y = workers[w].end /\ workers[w].color = None

\* C16: computing the colour of a pixel leaves the generator, which the
\* pixel computations share, as it was, and when every worker has written the
\* pixels of its rows the canvas is the canvas of the sequential loops of
\* Camera::render, whatever the order of the computations and the writes was.
C16_WorkersRenderSequentialCanvas ==
    /\ rng = 0
    /\ WorkersDone =>
           image[1].data = Rendered(NewCanvas(camera[1].hsize, camera[1].vsize), 0, 0).data

\* ------------------------------------------ the Intersections container

\* At most this many push calls and this many next calls are made on a container.
MaxPushes == 3

MaxNexts == 3

\* The finite values pushed.
PushChoices == {-One, 0, One, 2 * One}

\* No scene, no container yet.
ContainerInit ==
    /\ lights = <<>>
    /\ transforms = <<>>
    /\ materials = <<>>
    /\ geometrys = <<>>
    /\ max_depth = DefaultMaxDepth
    /\ pc = "idle"
    /\ stack = <<>>
    /\ primary = None
    /\ result = None
    /\ ret = None
    /\ probe = None
    /\ count = NoCount
    /\ issued = <<>>
    /\ build = "debug"
    /\ builder = None
    /\ camera = None
    /\ image = None
    /\ loop = None
    /\ workers = <<>>
    /\ rng = 0

\* Intersections::new(); probe holds the container (xs and its iterator
\* field), the values pushed so far, whether one was pushed after a next, and
\* what the next calls returned.
Intersections_new ==
    /\ probe = None
    /\ probe' = Some([xs |-> NewIntersections, iterator |-> 0, pushed |-> <<>>, late |-> FALSE,
                      yielded |-> <<>>])
    /\ UNCHANGED <<lights, transforms, materials, geometrys, max_depth, pc, stack, primary, result, ret,
                   count, issued, rng, outside>>

\* Intersections::push
Intersections_push(t) ==
    /\ probe # None
    /\ Len(probe[1].pushed) < MaxPushes
    /\ probe' = Some([probe[1] EXCEPT !.xs = push(@, t),
                                      !.pushed = Append(@, t),
                                      !.late = @ \/ Len(probe[1].yielded) > 0])
    /\ UNCHANGED <<lights, transforms, materials, geometrys, max_depth, pc, stack, primary, result, ret,
                   count, issued, rng, outside>>

\* Iterator::next of Intersections
Intersections_next ==
    /\ probe # None
    /\ Len(probe[1].yielded) < MaxNexts
    /\ LET c == probe[1]
       IN IF c.iterator = 0 /\ c.xs.t0 < INFINITY
          THEN probe' = Some([c EXCEPT !.iterator = 1, !.yielded = Append(@, Some(c.xs.t0))])
          ELSE IF c.iterator = 1 /\ c.xs.t1 < INFINITY
               THEN probe' = Some([c EXCEPT !.iterator = 2, !.yielded = Append(@, Some(c.xs.t1))])
               ELSE probe' = Some([c EXCEPT !.yielded = Append(@, None)])
    /\ UNCHANGED <<lights, transforms, materials, geometrys, max_depth, pc, stack, primary, result, ret,
                   count, issued, rng, outside>>

ContainerNext ==
    \/ Intersections_new
    \/ \E t \in PushChoices : Intersections_push(t)
    \/ Intersections_next

ContainerSpec == ContainerInit /\ [][ContainerNext]_vars

\* The k-th smallest element of the sequence s, counted with multiplicity.
Smallest(s, k) ==
    s[CHOOSE j \in 1..Len(s) :
          1 + Cardinality({i \in 1..Len(s) : s[i] < s[j] \/ (s[i] = s[j] /\ i < j)}) = k]

\* C25: after any pushes of finite values on a new container, t0 <= t1, t0
\* and t1 are the two smallest values pushed, counted with multiplicity
\* (INFINITY for a slot no push filled), len() is the lesser of 2 and the
\* number of pushes, and an iteration that follows the pushes yields t0, then
\* t1, each at most once, and then ends.
C25_TwoSmallestInOrder ==
    probe # None =>
        LET c == probe[1]
            n == Len(c.pushed)
        IN /\ c.xs.t0 <= c.xs.t1
           /\ c.xs.t0 = (IF n >= 1 THEN Smallest(c.pushed, 1) ELSE INFINITY)
           /\ c.xs.t1 = (IF n >= 2 THEN Smallest(c.pushed, 2) ELSE INFINITY)
           /\ len(c.xs) = Min(2, n)
           /\ ~c.late =>
                  /\ \A j \in 1..Len(c.yielded) :
                         c.yielded[j] = (IF j = 1 /\ n >= 1 THEN Some(c.xs.t0)
                                         ELSE IF j = 2 /\ n >= 2 THEN Some(c.xs.t1)
                                         ELSE None)
                  /\ Len(c.yielded) > len(c.xs) =>
                         IterValues(c.xs) = [j \in 1..len(c.xs) |-> c.yielded[j][1]]

\* Three values were pushed, the least of them last and one of them twice,
\* and the iteration yielded two values in ascending order and then ended.
C25_Witness ==
    /\ probe # None
    /\ probe[1].pushed = <<One, One, 0>>
    /\ probe[1].xs = [t0 |-> 0, t1 |-> One]
    /\ probe[1].yielded = <<Some(0), Some(One), None>>

\* ------------------------------------------ direct calls on the geometries

\* The geometries called: the unit variants, the default cone and cylinder
\* (unbounded, open) and truncated ones, closed and open.
GeometryChoices ==
    {Geometry_plane, Geometry_sphere, Geometry_cube, Geometry_test,
     Geometry_Cone(-INFINITY, INFINITY, FALSE),
     Geometry_Cone(-500, 500, TRUE),
     Geometry_Cone(-500, 500, FALSE),
     Geometry_Cone(-One, 2 * One, TRUE),
     Geometry_Cylinder(-INFINITY, INFINITY, FALSE),
     Geometry_Cylinder(One, 2 * One, TRUE),
     Geometry_Cylinder(One, 2 * One, FALSE)}

\* The rays of the tests of cone.rs, cylinder.rs, cube.rs and plane.rs, and
\* rays parallel to the y axis at a distance from it.
ShapeRays ==
    {ray(point3(0, 0, -5 * One), vector3(0, One, 0)),
     ray(point3(0, 0, -250), vector3(0, 707, 707)),
     ray(point3(0, 0, -250), vector3(0, One, 0)),
     ray(point3(0, 0, -5 * One), vector3(0, 0, One)),
     ray(point3(0, 0, -One), vector3(0, 707, 707)),
     ray(point3(600, -One, 0), vector3(0, One, 0)),
     ray(point3(1500, -2 * One, 0), vector3(0, One, 0)),
     ray(point3(0, 3 * One, 0), vector3(0, -One, 0)),
     ray(point3(0, 3 * One, -2 * One), vector3(0, -447, 894)),
     ray(point3(0, 1500, -2 * One), vector3(0, 0, One)),
     ray(point3(500, 0, -5 * One), vector3(0, 0, One)),
     ray(point3(0, One, 0), vector3(0, -One, 0)),
     ray(point3(0, 10 * One, 0), vector3(0, 0, One))}

\* Points on and off the surfaces.
ShapePoints ==
    {point3(0, 0, 0), point3(One, One, One), point3(-One, -One, 0), point3(0, 0, One),
     point3(0, 500, 0), point3(600, 500, 0), point3(600, -500, 0), point3(1500, 2 * One, 0),
     point3(0, One, 0), point3(500, 2 * One, 0), point3(One, 1500, 0)}

\* The transforms of the objects whose normal is asked for.
ShapeTransforms == {NewTransform, Scale(2 * One), Translate(0, One, 0)}

\* Eye vectors.
ShapeEyes == {vector3(0, 0, -One), vector3(0, 0, One), vector3(0, One, 0), vector3(0, -707, 707)}

\* Materials, lights, eye vectors and normals handed to Material::lighting at
\* the point (0, 0, 0): the light in front of, behind and above the surface.
LightingMaterials ==
    {NewMaterial,
     [NewMaterial EXCEPT !.color = Color(One, 500, 200), !.ambient = 300, !.shininess = 10],
     [NewMaterial EXCEPT !.texture = "WhiteNoise"]}

LightingLights ==
    {Light(point3(0, 0, -10 * One), WHITE),
     Light(point3(0, 0, 10 * One), WHITE),
     Light(point3(0, 10 * One, -10 * One), Color(One, 500, 200))}

LightingEyes == {vector3(0, 0, -One), vector3(0, 0, One), vector3(0, 707, -707), vector3(0, -707, -707)}

LightingNormals == {vector3(0, 0, -One), vector3(0, 0, One)}

\* The representation of 1.0 in the y components of PlaneRays.
Micro == 1000000

\* Rays handed to plane.rs, which reads only origin.y and direction.y: both
\* are kept in units of 1e-6, a common factor that leaves their quotient and
\* the comparison of direction.y with zero as they are.
PlaneRays ==
    {ray(point3(0, oy, 0), vector3(0, dy, 0)) :
        oy \in {0, Micro \div 2, -(Micro \div 2)}, dy \in {0, 5, -5, 500, 5000, Micro, -Micro}}

\* Rays and object transforms (a Matrix4) handed to Object::intersect of a plane.
ObjectRays ==
    {ray(point3(0, oy, 0), vector3(One, dy, 0)) : oy \in {0, One, -One}, dy \in {0, 5, 10, One, -One}}

ObjectTransforms == {I4, Translate(0, One, 0).local_to_world}

\* No scene; each behaviour makes one call.
ShapeInit ==
    /\ lights = <<>>
    /\ transforms = <<>>
    /\ materials = <<>>
    /\ geometrys = <<>>
    /\ max_depth = DefaultMaxDepth
    /\ pc = "idle"
    /\ stack = <<>>
    /\ primary = None
    /\ result = None
    /\ ret = None
    /\ probe = None
    /\ count = NoCount
    /\ issued = <<>>
    /\ build = "debug"
    /\ builder = None
    /\ camera = None
    /\ image = None
    /\ loop = None
    /\ workers = <<>>
    /\ rng = 0

\* geometry.intersect(ray)
call_intersect(geometry, r) ==
    /\ probe = None
    /\ probe' = Some([call |-> "intersect", geometry |-> geometry, ray |-> r,
                      value |-> intersect(geometry, r)])
    /\ UNCHANGED <<lights, transforms, materials, geometrys, max_depth, pc, stack, primary, result, ret,
                   count, issued, rng, outside>>

\* intersect_caps of cone.rs and of cylinder.rs on a container nothing was
\* pushed on.
call_intersect_caps(geometry, r) ==
    /\ probe = None
    /\ geometry.shape \in {"Cone", "Cylinder"}
    /\ Abs(geometry.min) < INFINITY
    /\ probe' = Some([call |-> "intersect_caps", geometry |-> geometry, ray |-> r,
                      value |-> IF geometry.shape = "Cone"
                                THEN cone_intersect_caps(r, NewIntersections, geometry.min,
                                                         geometry.max, geometry.closed)
                                ELSE cylinder_intersect_caps(r, NewIntersections, geometry.min,
                                                             geometry.max, geometry.closed)])
    /\ UNCHANGED <<lights, transforms, materials, geometrys, max_depth, pc, stack, primary, result, ret,
                   count, issued, rng, outside>>

\* geometry.normal_at(point)
call_normal_at(geometry, point) ==
    /\ probe = None
    /\ probe' = Some([call |-> "normal_at", geometry |-> geometry, point |-> point,
                      value |-> normal_at(geometry, point)])
    /\ UNCHANGED <<lights, transforms, materials, geometrys, max_depth, pc, stack, primary, result, ret,
                   count, issued, rng, outside>>

\* world_normal_at(transform, geometry, world_point, eye_vector)
call_world_normal_at(transform, geometry, world_point, eye_vector) ==
    /\ probe = None
    /\ probe' = Some([call |-> "world_normal_at", transform |-> transform, geometry |-> geometry,
                      world_point |-> world_point, eye_vector |-> eye_vector,
                      value |-> world_normal_at(transform, geometry, world_point, eye_vector)])
    /\ UNCHANGED <<lights, transforms, materials, geometrys, max_depth, pc, stack, primary, result, ret,
                   count, issued, rng, outside>>

\* material.lighting(rng, transform, light, point, eyev, normalv, in_shadow)
call_lighting(material, light, eyev, normalv, in_shadow) ==
    /\ probe = None
    /\ probe' = Some([call |-> "lighting", material |-> material, rng |-> rng, light |-> light,
                      point |-> point3(0, 0, 0), eyev |-> eyev, normalv |-> normalv,
                      in_shadow |-> in_shadow,
                      value |-> lighting(material, rng, NewTransform, light, point3(0, 0, 0), eyev,
                                         normalv, in_shadow)])
    /\ rng' = Drawn(material, rng)
    /\ UNCHANGED <<lights, transforms, materials, geometrys, max_depth, pc, stack, primary, result, ret,
                   count, issued, outside>>

\* plane::intersect(ray)
call_plane_intersect(r) ==
    /\ probe = None
    /\ probe' = Some([call |-> "plane_intersect", ray |-> r, value |-> plane_intersect(r)])
    /\ UNCHANGED <<lights, transforms, materials, geometrys, max_depth, pc, stack, primary, result, ret,
                   count, issued, rng, outside>>

\* Object::intersect of object.rs for an object of Shape::Plane
call_object_intersect(transform, r) ==
    /\ probe = None
    /\ probe' = Some([call |-> "object_intersect", transform |-> transform, ray |-> r,
                      value |-> object_intersect_Plane(transform, r)])
    /\ UNCHANGED <<lights, transforms, materials, geometrys, max_depth, pc, stack, primary, result, ret,
                   count, issued, rng, outside>>

ShapeNext ==
    \/ \E geometry \in GeometryChoices : \E r \in ShapeRays : call_intersect(geometry, r)
    \/ \E geometry \in GeometryChoices : \E r \in ShapeRays : call_intersect_caps(geometry, r)
    \/ \E geometry \in GeometryChoices : \E point \in ShapePoints : call_normal_at(geometry, point)
    \/ \E transform \in ShapeTransforms : \E geometry \in GeometryChoices :
          \E world_point \in ShapePoints : \E eye_vector \in ShapeEyes :
             call_world_normal_at(transform, geometry, world_point, eye_vector)
    \/ \E material \in LightingMaterials : \E light \in LightingLights : \E eyev \in LightingEyes :
          \E normalv \in LightingNormals : \E in_shadow \in BOOLEAN :
             call_lighting(material, light, eyev, normalv, in_shadow)
    \/ \E r \in PlaneRays : call_plane_intersect(r)
    \/ \E transform \in ObjectTransforms : \E r \in ObjectRays : call_object_intersect(transform, r)

ShapeSpec == ShapeInit /\ [][ShapeNext]_vars

\* The t at which the ray of the call meets the plane y = bound.
CapT(p, bound) == FDiv(bound - p.ray.origin.y, p.ray.direction.y)

\* The call's result holds the t of the cap on the plane y = bound.
CapAccepted(p, bound) == Contains(IterValues(p.value), CapT(p, bound))

\* The squared distance from the y axis of the point of a normal_at call.
AxisDistance2(p) == TDiv(p.point.x * p.point.x + p.point.z * p.point.z, One)

\* What the truncated arithmetic may add to or take from a squared distance.
Slack == One \div 200

\* C23: for a closed cone the cap on the plane y = min (y = max) has the
\* radius |min| (|max|): a ray that is not parallel to the caps has its hit on
\* that plane accepted when the squared distance of the hit from the y axis is
\* below min^2 (max^2) and rejected when it is above min^2 (max^2) plus
\* epsilon, and normal_at gives the cap's normal to a point of that plane
\* inside the radius and not to one outside it. Distances within Slack of the
\* squared radius are left open.
C23_ConeCapRadius ==
    /\ (/\ probe # None
        /\ probe[1].call = "intersect_caps"
        /\ probe[1].geometry.shape = "Cone"
        /\ probe[1].geometry.closed
        /\ ~Negligible(probe[1].ray.direction.y))
       => LET p == probe[1]
              min == p.geometry.min
              max == p.geometry.max
          IN /\ CapDistance2(p.ray, CapT(p, min)) < FMul(min, min) - Slack => CapAccepted(p, min)
             /\ CapDistance2(p.ray, CapT(p, min)) > FMul(min, min) + Slack => ~CapAccepted(p, min)
             /\ CapDistance2(p.ray, CapT(p, max)) < FMul(max, max) - Slack => CapAccepted(p, max)
             /\ CapDistance2(p.ray, CapT(p, max)) > FMul(max, max) + Slack => ~CapAccepted(p, max)
    /\ (/\ probe # None
        /\ probe[1].call = "normal_at"
        /\ probe[1].geometry.shape = "Cone"
        /\ Abs(probe[1].geometry.min) < INFINITY)
       => LET p == probe[1]
              min == p.geometry.min
              max == p.geometry.max
          IN /\ (p.point.y = max /\ AxisDistance2(p) < FMul(max, max) - Slack)
                    => p.value = vector3(0, One, 0)
             /\ (p.point.y = max /\ AxisDistance2(p) > FMul(max, max) + Slack)
                    => p.value # vector3(0, One, 0)
             /\ (p.point.y = min /\ AxisDistance2(p) < FMul(min, min) - Slack)
                    => p.value = vector3(0, -One, 0)
             /\ (p.point.y = min /\ AxisDistance2(p) > FMul(min, min) + Slack)
                    => p.value # vector3(0, -One, 0)

\* The ts the body and the caps of a closed cone or cylinder push, in the
\* order of the pushes; none from the caps after an early return.
Candidates(p) ==
    LET g == p.geometry
        body == IF g.shape = "Cone" THEN cone_body(p.ray, g.min, g.max)
                ELSE cylinder_body(p.ray, g.min, g.max)
        caps == IF g.shape = "Cone"
                THEN cone_intersect_caps(p.ray, NewIntersections, g.min, g.max, g.closed)
                ELSE cylinder_intersect_caps(p.ray, NewIntersections, g.min, g.max, g.closed)
    IN IF body[2] THEN IterValues(body[1]) ELSE IterValues(body[1]) \o IterValues(caps)

\* C24: Geometry::intersect returns at most two t values for every geometry
\* and ray, and for a closed cone or cylinder they are the two smallest of the
\* candidate hits of the body and the caps, in ascending order.
C24_AtMostTwoSmallest ==
    (probe # None /\ probe[1].call = "intersect")
    => LET p == probe[1]
       IN /\ len(p.value) <= 2
          /\ Len(IterValues(p.value)) = len(p.value)
          /\ (p.geometry.shape \in {"Cone", "Cylinder"} /\ p.geometry.closed)
             => IterValues(p.value)
                    = [k \in 1..Min(2, Len(Candidates(p))) |-> Smallest(Candidates(p), k)]

\* The ray of tests::intersecting_a_cones_end_caps through both caps and the
\* body of the closed cone: four candidates, the two smallest returned.
C24_Witness ==
    /\ probe # None
    /\ probe[1].call = "intersect"
    /\ probe[1].geometry = Geometry_Cone(-500, 500, TRUE)
    /\ probe[1].ray = ray(point3(0, 0, -250), vector3(0, One, 0))
    /\ Len(Candidates(probe[1])) = 4
    /\ IterValues(probe[1].value) = <<-500, -248>>

\* The normal of the geometry at the point in world space, before it is
\* turned to the eye.
GeometryNormal(p) ==
    normalize([MatMulTuple(transpose(p.transform.world_to_local),
                           normal_at(p.geometry, MatMulTuple(p.transform.world_to_local, p.world_point)))
                  EXCEPT !.w = 0])

\* C27: the normal world_normal_at returns has a dot product >= 0 with the
\* eye vector: it is the geometry's normal, negated exactly when the dot
\* product of that normal with the eye vector is negative.
C27_NormalFacesEye ==
    (probe # None /\ probe[1].call = "world_normal_at")
    => LET p == probe[1]
           n == GeometryNormal(p)
       IN /\ dot(p.value, p.eye_vector) >= 0
          /\ p.value = (IF dot(n, p.eye_vector) < 0 THEN TNeg(n) ELSE n)

\* The eye is inside a scaled sphere: the normal at (0, 0, 1) points away from
\* the eye and is returned negated.
C27_Witness ==
    /\ probe # None
    /\ probe[1].call = "world_normal_at"
    /\ probe[1].geometry = Geometry_sphere
    /\ probe[1].transform = Scale(2 * One)
    /\ probe[1].world_point = point3(0, 0, One)
    /\ probe[1].eye_vector = vector3(0, 0, -One)
    /\ dot(GeometryNormal(probe[1]), probe[1].eye_vector) < 0
    /\ probe[1].value = vector3(0, 0, -One)

\* The terms of the Phong model for a lighting call.
AmbientTerm(p) ==
    CScale(CMul(evaluate(p.material, p.rng), p.light.intensity), p.material.ambient)

LightDotNormal(p) == dot(normalize(TSub(p.light.position, p.point)), p.normalv)

ReflectDotEye(p) ==
    dot(reflect(TNeg(normalize(TSub(p.light.position, p.point))), p.normalv), p.eyev)

DiffuseTerm(p) ==
    CScale(CScale(CMul(evaluate(p.material, p.rng), p.light.intensity), p.material.diffuse),
           LightDotNormal(p))

SpecularTerm(p) ==
    CScale(CScale(p.light.intensity, p.material.specular), FPowi(ReflectDotEye(p), p.material.shininess))

\* C28: the colour lighting returns is the ambient term, plus the diffuse
\* term when the point is not in shadow and light_dot_normal >= 0, plus the
\* specular term when in addition reflect_dot_eye >= 0; in shadow it is the
\* ambient term alone.
C28_LightingTerms ==
    (probe # None /\ probe[1].call = "lighting")
    => LET p == probe[1]
           diffuse_added == ~p.in_shadow /\ LightDotNormal(p) >= 0
           specular_added == diffuse_added /\ ReflectDotEye(p) >= 0
       IN /\ p.value = CAdd(CAdd(AmbientTerm(p), IF diffuse_added THEN DiffuseTerm(p) ELSE BLACK),
                            IF specular_added THEN SpecularTerm(p) ELSE BLACK)
          /\ p.in_shadow => p.value = AmbientTerm(p)

\* The light is behind the surface and its reflection points at the eye: not
\* in shadow, the specular term is not black, and the ambient term is all that
\* is returned.
C28_Witness ==
    /\ probe # None
    /\ probe[1].call = "lighting"
    /\ ~probe[1].in_shadow
    /\ LightDotNormal(probe[1]) < 0
    /\ ReflectDotEye(probe[1]) >= 0
    /\ SpecularTerm(probe[1]) # BLACK
    /\ probe[1].value = AmbientTerm(probe[1])
    /\ probe[1].value # BLACK

\* The ends of the range the spec gives for epsilon, 1e-5 and 1e-3, in the
\* unit of PlaneRays.
EpsilonLeast == Micro \div 100000

EpsilonMost == Micro \div 1000

\* C29: a plane is not intersected by a ray whose |direction.y| is below
\* epsilon and is intersected once, at t = -origin.y / direction.y, by any
\* other ray, for an epsilon between 1e-5 and 1e-3: whatever the epsilon, no
\* intersection below 1e-5 and one from 1e-3 on. For Object::intersect the ray
\* is the ray in the object's space.
C29_PlaneEpsilon ==
    /\ (probe # None /\ probe[1].call = "plane_intersect")
       => LET r == probe[1].ray
          IN /\ Abs(r.direction.y) < EpsilonLeast => len(probe[1].value) = 0
             /\ Abs(r.direction.y) >= EpsilonMost
                   => /\ len(probe[1].value) = 1
                      /\ probe[1].value.t0 = FDiv(-r.origin.y, r.direction.y)
    /\ (probe # None /\ probe[1].call = "object_intersect")
       => LET r == RayTransform(probe[1].ray, inverse(probe[1].transform))
          IN /\ Negligible(r.direction.y) => probe[1].value = <<>>
             /\ Abs(r.direction.y) >= One \div 1000
                   => probe[1].value = <<FDiv(-r.origin.y, r.direction.y)>>

\* ------------------------------------ the loop of Scene::refractive_indexes

\* The rays walked: the rays of UnitRays and a ray that touches the sphere A.
WalkRays == UnitRays \cup {ray(point3(0, 2 * One, -4 * One), vector3(0, 0, One))}

\* An intersection that is none of the ray's.
Absent == Intersection(-7 * One, 0)

\* The intersection arguments: each intersection of the ray, and Absent.
WalkTargets(world_ray) ==
    {intersections(world_ray)[j] : j \in 1..Len(intersections(world_ray))} \cup {Absent}

\* scene.refractive_indexes(world_ray, intersection) up to its loop: n1, n2,
\* containers and the sorted all_intersections, k of them processed.
walk_begin(world_ray, intersection) ==
    /\ pc = "idle"
    /\ probe = None
    /\ probe' = Some([call |-> "refractive_indexes", world_ray |-> world_ray,
                      intersection |-> intersection,
                      all_intersections |-> SortByT(intersections(world_ray)),
                      k |-> 0, containers |-> <<>>, n1 |-> One, n2 |-> One, returned |-> FALSE])
    /\ UNCHANGED <<lights, transforms, materials, geometrys, max_depth, pc, stack, primary, result, ret,
                   count, issued, rng, outside>>

\* One pass of `for i in all_intersections`, with its break.
walk_step ==
    /\ probe # None
    /\ ~probe[1].returned
    /\ probe[1].k < Len(probe[1].all_intersections)
    /\ LET w == probe[1]
           i == w.all_intersections[w.k + 1]
           toggled == Toggle(w.containers, i.object_id)
       IN probe' = Some([w EXCEPT !.k = @ + 1,
                                  !.n1 = IF i = w.intersection THEN TopIndex(w.containers) ELSE @,
                                  !.containers = toggled,
                                  !.n2 = IF i = w.intersection THEN TopIndex(toggled) ELSE @,
                                  !.returned = (i = w.intersection)])
    /\ UNCHANGED <<lights, transforms, materials, geometrys, max_depth, pc, stack, primary, result, ret,
                   count, issued, rng, outside>>

\* The loop is exhausted: (n1, n2) is returned.
walk_return ==
    /\ probe # None
    /\ ~probe[1].returned
    /\ probe[1].k = Len(probe[1].all_intersections)
    /\ probe' = Some([probe[1] EXCEPT !.returned = TRUE])
    /\ UNCHANGED <<lights, transforms, materials, geometrys, max_depth, pc, stack, primary, result, ret,
                   count, issued, rng, outside>>

WalkNext ==
    \/ \E world_ray \in WalkRays : \E intersection \in WalkTargets(world_ray) :
          walk_begin(world_ray, intersection)
    \/ walk_step
    \/ walk_return

WalkSpec == UnitInit /\ [][WalkNext]_vars

\* C26: while refractive_indexes walks the sorted intersections, containers
\* never holds an object id twice; after the first k intersections an id is on
\* it if and only if that object owns an odd number of those k; the ids are
\* in the order of the intersections at which the objects were last entered;
\* and the walk returns what refractive_indexes returns.
C26_ContainersAreEnteredObjects ==
    probe # None =>
        LET w == probe[1]
            held == {w.containers[a] : a \in 1..Len(w.containers)}
        IN /\ Cardinality(held) = Len(w.containers)
           /\ held = EnteredAfter(w.all_intersections, w.k)
           /\ \A a, b \in 1..Len(w.containers) :
                 a < b => LastOwnedBy(w.all_intersections, w.k, w.containers[a])
                              < LastOwnedBy(w.all_intersections, w.k, w.containers[b])
           /\ w.returned => <<w.n1, w.n2>> = refractive_indexes(w.world_ray, w.intersection)

\* Four intersections of the ray through the three spheres are processed, one
\* object is left again, and the two objects on containers are not in the
\* order of their ids.
C26_Witness ==
    /\ probe # None
    /\ probe[1].world_ray = GlassRay
    /\ probe[1].k = 4
    /\ Len(probe[1].containers) = 2
    /\ probe[1].containers[1] > probe[1].containers[2]
    /\ Cardinality({j \in 1..4 : probe[1].all_intersections[j].object_id = 0}) = 2

\* ------------------------------------------------------------ canvas_to_ppm

\* A canvas written out has at most this many pixels in a row.
MaxWidth == 12

\* A canvas written out has at most this many rows.
MaxHeight == 2

\* The characters of the decimal digits.
DigitChars == <<"0", "1", "2", "3", "4", "5", "6", "7", "8", "9">>

RECURSIVE to_string(_)
\* n.to_string() of an unsigned integer: its decimal digits, no leading zero.
to_string(n) ==
    IF n < 10 THEN <<DigitChars[n + 1]>>
    ELSE Append(to_string(n \div 10), DigitChars[(n % 10) + 1])

\* format!("P3\n{} {}\n255\n", canvas.width, canvas.height)
Header(canvas) ==
    <<"P", "3", "\n">> \o to_string(canvas.width) \o <<" ">> \o to_string(canvas.height)
        \o <<"\n", "2", "5", "5", "\n">>

\* The bytes of the first row, whichever row is asked for.
Row_First(canvas, y) == SubSeq(canvas.data, 1, 3 * canvas.width)

\* canvas.data[3 * (y * canvas.width)..3 * ((y + 1) * canvas.width)]
Row(canvas, y) == SubSeq(canvas.data, 3 * (y * canvas.width) + 1, 3 * ((y + 1) * canvas.width))

\* A line that is never broken.
Wraps_Never(size, chars_written) == FALSE

\* if len + chars_written > 70, size being the len of the code
Wraps(size, chars_written) == size + chars_written > 70

\* The colour a pattern gives the pixel (x, y).
PatternColor(pattern, x, y) ==
    IF pattern = "splitting" THEN Color(One, 800, 600)
    ELSE LET k == (x + 2 * y) % 3
         IN IF k = 0 THEN Color(0, 20, 1500)
            ELSE IF k = 1 THEN Color(500, -500, 40)
            ELSE Color(100, 900, 4)

RECURSIVE Filled(_, _, _)
\* The canvas after set_color(x, y, ..) on its first n pixels, row by row.
Filled(canvas, pattern, n) ==
    IF n = 0 THEN canvas
    ELSE LET x == (n - 1) % canvas.width
             y == (n - 1) \div canvas.width
         IN set_color(Filled(canvas, pattern, n - 1), x, y, PatternColor(pattern, x, y))

\* The canvases written out: Canvas::new alone, the canvas of
\* tests::splitting_long_lines_in_ppm_files, and one whose bytes have one,
\* two and three digits.
PpmCanvases ==
    {IF pattern = "new" THEN NewCanvas(width, height)
     ELSE Filled(NewCanvas(width, height), pattern, width * height) :
        width \in 0..MaxWidth, height \in 0..MaxHeight, pattern \in {"new", "splitting", "digits"}}

\* A canvas is constructed and filled.
PpmInit ==
    /\ lights = <<>>
    /\ transforms = <<>>
    /\ materials = <<>>
    /\ geometrys = <<>>
    /\ max_depth = DefaultMaxDepth
    /\ pc = "idle"
    /\ stack = <<>>
    /\ primary = None
    /\ result = None
    /\ ret = None
    /\ probe = None
    /\ count = NoCount
    /\ issued = <<>>
    /\ build = "debug"
    /\ builder = None
    /\ camera = None
    /\ image \in {Some(canvas) : canvas \in PpmCanvases}
    /\ loop = None
    /\ workers = <<>>
    /\ rng = 0

\* canvas_to_ppm(canvas) up to its loop: the header is pushed.
canvas_to_ppm ==
    /\ loop = None
    /\ loop' = Some([result |-> Header(image[1]), y |-> 0, row |-> <<>>, c |-> 0,
                     chars_written |-> 0, at |-> "rows"])
    /\ UNCHANGED <<lights, transforms, materials, geometrys, max_depth, pc, stack, primary, result, ret,
                   probe, count, issued, build, builder, camera, image, workers, rng>>

\* for y in 0..canvas.height: the row is collected, chars_written = 0.
ppm_row ==
    /\ loop # None
    /\ loop[1].at = "rows"
    /\ loop[1].y < image[1].height
    /\ loop' = Some([loop[1] EXCEPT
                        !.row = [k \in 1..(3 * image[1].width) |-> to_string(Row(image[1], loop[1].y)[k])],
                        !.c = 0, !.chars_written = 0, !.at = "row"])
    /\ UNCHANGED <<lights, transforms, materials, geometrys, max_depth, pc, stack, primary, result, ret,
                   probe, count, issued, build, builder, camera, image, workers, rng>>

\* for c in row: one value is pushed, after a line break or a space where due.
ppm_value ==
    /\ loop # None
    /\ loop[1].at = "row"
    /\ loop[1].c < Len(loop[1].row)
    /\ LET l == loop[1]
           c == l.row[l.c + 1]
           size == 1 + Len(c)
           broken == Wraps(size, l.chars_written)
           text == IF broken THEN l.result \o <<"\n">> ELSE l.result
           chars_written == IF broken THEN 0 ELSE l.chars_written
       IN loop' = Some([l EXCEPT
                           !.result = IF chars_written = 0 THEN text \o c ELSE text \o <<" ">> \o c,
                           !.chars_written = IF chars_written = 0 THEN chars_written + size - 1
                                             ELSE chars_written + size,
                           !.c = @ + 1])
    /\ UNCHANGED <<lights, transforms, materials, geometrys, max_depth, pc, stack, primary, result, ret,
                   probe, count, issued, build, builder, camera, image, workers, rng>>

\* result.push_str("\n") after the values of a row.
ppm_end_row ==
    /\ loop # None
    /\ loop[1].at = "row"
    /\ loop[1].c = Len(loop[1].row)
    /\ loop' = Some([loop[1] EXCEPT !.result = @ \o <<"\n">>, !.y = @ + 1, !.at = "rows"])
    /\ UNCHANGED <<lights, transforms, materials, geometrys, max_depth, pc, stack, primary, result, ret,
                   probe, count, issued, build, builder, camera, image, workers, rng>>

\* The rows are exhausted: result is returned.
ppm_return ==
    /\ loop # None
    /\ loop[1].at = "rows"
    /\ loop[1].y = image[1].height
    /\ loop' = Some([loop[1] EXCEPT !.at = "returned"])
    /\ UNCHANGED <<lights, transforms, materials, geometrys, max_depth, pc, stack, primary, result, ret,
                   probe, count, issued, build, builder, camera, image, workers, rng>>

PpmNext ==
    \/ canvas_to_ppm
    \/ ppm_row
    \/ ppm_value
    \/ ppm_end_row
    \/ ppm_return

PpmSpec == PpmInit /\ [][PpmNext]_vars

\* The positions of the line breaks of a text.
Breaks(text) == {i \in 1..Len(text) : text[i] = "\n"}

\* Whether the characters a..b of a text are a line of it.
IsLine(text, a, b) ==
    /\ a <= b + 1
    /\ (a = 1 \/ text[a - 1] = "\n")
    /\ b < Len(text) /\ text[b + 1] = "\n"
    /\ \A i \in a..b : text[i] # "\n"

\* C21: no line of the text canvas_to_ppm builds is longer than 70
\* characters, and the text it returns ends with a newline character.
C21_LinesWithin70 ==
    loop # None =>
        LET text == loop[1].result
        IN /\ \A i \in 1..(Len(text) - 70) : \E j \in i..(i + 70) : text[j] = "\n"
           /\ loop[1].at = "returned" => (Len(text) > 0 /\ text[Len(text)] = "\n")

\* The text of a canvas of two rows is returned, each row took more than one
\* line, and a line of 67 characters or more is among them.
C21_Witness ==
    /\ loop # None
    /\ loop[1].at = "returned"
    /\ image[1].height = 2
    /\ Cardinality(Breaks(loop[1].result)) >= 3 + 2 * image[1].height
    /\ \E a \in 1..Len(loop[1].result) : IsLine(loop[1].result, a, a + 66)

\* Whether a character is a decimal digit.
IsDigit(ch) == \E d \in 1..10 : DigitChars[d] = ch

\* The value of a decimal digit.
DigitValue(ch) == CHOOSE d \in 0..9 : DigitChars[d + 1] = ch

\* Whether the characters a..b of a text are one or more decimal digits.
IsNumber(text, a, b) == a <= b /\ \A i \in a..b : IsDigit(text[i])

RECURSIVE Number(_, _, _)
\* The number the decimal digits a..b of a text denote.
Number(text, a, b) ==
    IF a >= b THEN DigitValue(text[b])
    ELSE 10 * Number(text, a, b - 1) + DigitValue(text[b])

\* The position of the n-th line break of a text.
NthBreak(text, n) == CHOOSE b \in Breaks(text) : Cardinality({c \in Breaks(text) : c <= b}) = n

\* The positions after the header at which a value starts.
ValueStarts(text) ==
    {i \in (NthBreak(text, 3) + 1)..Len(text) : IsDigit(text[i]) /\ ~IsDigit(text[i - 1])}

\* The position at which the value starting at i ends.
ValueEnd(text, i) ==
    CHOOSE j \in i..Len(text) : IsNumber(text, i, j) /\ (j = Len(text) \/ ~IsDigit(text[j + 1]))

\* C22: the text canvas_to_ppm returns is the lines 'P3', '<width> <height>'
\* and '255' followed by digits, spaces and line breaks only, whose values
\* read in order are exactly the 3 * width * height bytes of the canvas, row
\* by row; the first value of every scanline is the first of a line. The
\* values being the bytes, one for one, no number is broken by a line break.
C22_TextIsHeaderAndBytes ==
    (loop # None /\ loop[1].at = "returned") =>
        LET text == loop[1].result
            canvas == image[1]
        IN /\ Cardinality(Breaks(text)) >= 3
           /\ LET b1 == NthBreak(text, 1)
                  b2 == NthBreak(text, 2)
                  b3 == NthBreak(text, 3)
                  starts == ValueStarts(text)
              IN /\ SubSeq(text, 1, b1) = <<"P", "3", "\n">>
                 /\ \E s \in (b1 + 1)..(b2 - 1) :
                       /\ text[s] = " "
                       /\ IsNumber(text, b1 + 1, s - 1) /\ Number(text, b1 + 1, s - 1) = canvas.width
                       /\ IsNumber(text, s + 1, b2 - 1) /\ Number(text, s + 1, b2 - 1) = canvas.height
                 /\ SubSeq(text, b2 + 1, b3) = <<"2", "5", "5", "\n">>
                 /\ \A i \in (b3 + 1)..Len(text) : IsDigit(text[i]) \/ text[i] \in {" ", "\n"}
                 /\ Len(canvas.data) = 3 * canvas.width * canvas.height
                 /\ Cardinality(starts) = Len(canvas.data)
                 /\ \A i \in starts :
                       LET k == Cardinality({s \in starts : s <= i})
                       IN /\ Number(text, i, ValueEnd(text, i)) = canvas.data[k]
                          /\ canvas.data[k] \in 0..255
                          /\ (k - 1) % (3 * canvas.width) = 0 => text[i - 1] = "\n"

\* The text of a canvas of two different rows is returned; its bytes have
\* one, two and three digits, and the rows were split over several lines.
C22_Witness ==
    /\ loop # None
    /\ loop[1].at = "returned"
    /\ image[1].height = 2
    /\ Row(image[1], 0) # Row(image[1], 1)
    /\ Cardinality(Breaks(loop[1].result)) > 3 + image[1].height
    /\ \E i, j, k \in 1..Len(image[1].data) :
          /\ image[1].data[i] < 10
          /\ image[1].data[j] \in 10..99
          /\ image[1].data[k] > 99

\* ------------------------------------------- Canvas::set_color, get_color

\* At most this many set_color calls are made on a canvas.
MaxWrites == 2

\* The colours written: channels above 1, below 0, and whose 255-fold has a
\* fraction of a half, of more and of less.
CanvasColors == {Color(1500, 0, -500), Color(800, 600, 500), Color(2, 998, One)}

\* Canvas::new(width, height)
CanvasInit ==
    /\ lights = <<>>
    /\ transforms = <<>>
    /\ materials = <<>>
    /\ geometrys = <<>>
    /\ max_depth = DefaultMaxDepth
    /\ pc = "idle"
    /\ stack = <<>>
    /\ primary = None
    /\ result = None
    /\ ret = None
    /\ probe = None
    /\ count = NoCount
    /\ issued = <<>>
    /\ build = "debug"
    /\ builder = None
    /\ camera = None
    /\ \E width \in 0..MaxSize, height \in 0..MaxSize : image = Some(NewCanvas(width, height))
    /\ loop = None
    /\ workers = <<>>
    /\ rng = 0

\* The number of set_color calls made so far.
Writes == IF probe = None THEN 0 ELSE probe[1].writes

\* canvas.set_color(x, y, color); an index outside self.data panics.
Canvas_set_color(x, y, color) ==
    /\ pc = "idle"
    /\ Writes < MaxWrites
    /\ IF InBounds(image[1], x, y)
       THEN /\ image' = Some(set_color(image[1], x, y, color))
            /\ probe' = Some([call |-> "set_color", x |-> x, y |-> y, color |-> color,
                              before |-> image[1], writes |-> Writes + 1])
            /\ pc' = pc
       ELSE /\ pc' = "panic"
            /\ UNCHANGED <<image, probe>>
    /\ UNCHANGED <<lights, transforms, materials, geometrys, max_depth, stack, primary, result, ret,
                   count, issued, build, builder, camera, loop, workers, rng>>

\* canvas.get_color(x, y) after a set_color call; an index outside self.data
\* panics.
Canvas_get_color(x, y) ==
    /\ pc = "idle"
    /\ probe # None
    /\ probe[1].call = "set_color"
    /\ IF InBounds(image[1], x, y)
       THEN /\ probe' = Some([call |-> "get_color", x |-> x, y |-> y,
                              value |-> get_color(image[1], x, y),
                              last |-> probe[1], writes |-> Writes])
            /\ pc' = pc
       ELSE /\ pc' = "panic"
            /\ UNCHANGED probe
    /\ UNCHANGED <<lights, transforms, materials, geometrys, max_depth, stack, primary, result, ret,
                   count, issued, build, builder, camera, image, loop, workers, rng>>

CanvasNext ==
    \/ \E x \in 0..image[1].width, y \in 0..image[1].height, color \in CanvasColors :
          Canvas_set_color(x, y, color)
    \/ \E x \in 0..image[1].width, y \in 0..image[1].height : Canvas_get_color(x, y)

CanvasSpec == CanvasInit /\ [][CanvasNext]_vars

\* Whether byte is round(255 * channel) of the channel clamped to [0, 1],
\* halves rounded up.
IsRounded(byte, channel) ==
    LET clamped == IF channel < 0 THEN 0 ELSE IF channel > One THEN One ELSE channel
    IN /\ byte \in 0..255
       /\ byte * One <= 255 * clamped + One \div 2
       /\ 255 * clamped + One \div 2 < (byte + 1) * One

\* Whether value is byte / 255, cut to the thousandths of the model.
IsOver255(value, byte) == 255 * value <= byte * One /\ byte * One < 255 * (value + 1)

\* Whether a canvas holds the bytes of a colour at pixel (x, y).
HoldsAt(canvas, x, y, color) ==
    LET first == 3 * (canvas.width * y + x) + 1
    IN /\ IsRounded(canvas.data[first], color.r)
       /\ IsRounded(canvas.data[first + 1], color.g)
       /\ IsRounded(canvas.data[first + 2], color.b)

\* C30: set_color(x, y, c) with x < width and y < height leaves in the three
\* bytes of pixel (x, y) the rounded 255-fold of the clamped channels of c and
\* leaves every other byte, the width and the height as they were; a
\* get_color(x, y) that follows returns those three bytes divided by 255.
C30_SetThenGet ==
    /\ (probe # None /\ probe[1].call = "set_color"
            /\ probe[1].x < probe[1].before.width /\ probe[1].y < probe[1].before.height) =>
          LET p == probe[1]
              canvas == image[1]
              first == 3 * (canvas.width * p.y + p.x) + 1
          IN /\ HoldsAt(canvas, p.x, p.y, p.color)
             /\ canvas.width = p.before.width
             /\ canvas.height = p.before.height
             /\ Len(canvas.data) = Len(p.before.data)
             /\ \A k \in 1..Len(canvas.data) :
                   k \notin first..(first + 2) => canvas.data[k] = p.before.data[k]
    /\ (probe # None /\ probe[1].call = "get_color"
            /\ probe[1].x = probe[1].last.x /\ probe[1].y = probe[1].last.y
            /\ probe[1].x < image[1].width /\ probe[1].y < image[1].height) =>
          LET p == probe[1]
              first == 3 * (image[1].width * p.y + p.x) + 1
          IN /\ IsOver255(p.value.r, image[1].data[first])
             /\ IsOver255(p.value.g, image[1].data[first + 1])
             /\ IsOver255(p.value.b, image[1].data[first + 2])
             /\ HoldsAt(image[1], p.x, p.y, p.last.color)

\* get_color follows a set_color of a colour whose channels are clamped from
\* above and below, at a pixel that is in neither the first row nor the
\* first column, on a canvas another pixel of which had been written before.
C30_Witness ==
    /\ probe # None
    /\ probe[1].call = "get_color"
    /\ probe[1].x = probe[1].last.x /\ probe[1].y = probe[1].last.y
    /\ probe[1].x > 0 /\ probe[1].y > 0
    /\ probe[1].x < image[1].width /\ probe[1].y < image[1].height
    /\ probe[1].last.color = Color(1500, 0, -500)
    /\ probe[1].value = Color(One, 0, 0)
    /\ \E k \in 1..Len(probe[1].last.before.data) : probe[1].last.before.data[k] = 128

====
